---- MODULE Spec2Model ----
(***************************************************************************)
(* Verification model of the annotation registries (annotations.py), the   *)
(* schema projection of the calculated fields (enhanced_form_generator.py) *)
(* and the confirmation quorum of the Streamlit front end                  *)
(* (streamlit_app.py, "Schritt 3").                                        *)
(*                                                                         *)
(* Python values are modelled as follows.                                  *)
(*   - a dict is a function whose DOMAIN is the set of keys present;       *)
(*     CalculatedFieldRegistry._fields, whose insertion order is read by   *)
(*     extract_calculated_fields, is a sequence of records with pairwise   *)
(*     distinct keys;                                                      *)
(*   - a date is a triple <<year, month, day>>; a missing key read with    *)
(*     .get() and the falsy values None, "" and 0.0 are one falsy value    *)
(*     per key of st.session_state.parameter (NoDate, "", 0);              *)
(*   - st.session_state.parameter keeps the keys the quorum code reads     *)
(*     (id, geburtsdatum, eintrittsdatum, austrittsdatum, letztes_gehalt); *)
(*     the "<key>_berechnet" overrides and "name" are not read by any      *)
(*     guard of the quorum and are left out;                               *)
(*   - of a calculated field's metadata the model keeps key, label,        *)
(*     requires, needs_confirmation and confirmation_threshold.            *)
(***************************************************************************)
EXTENDS Integers, Sequences, FiniteSets, TLC

VARIABLES
    CalculatedFieldRegistry_fields, \* CalculatedFieldRegistry._fields
    WorkflowStepRegistry_steps,     \* WorkflowStepRegistry._steps
    SCHEMA,                         \* SCHEMA['calculated_fields'] of the front end
    session_keys,                   \* keys present in st.session_state
    parameter,                      \* st.session_state.parameter
    formel_bestaetigung,            \* st.session_state.formel_bestaetigung
    ma_bestaetigt,                  \* st.session_state.ma_bestaetigt
    registered,                     \* history: per key, the metadata last passed to
                                    \* register and whether it replaced an entry
    step_log,                       \* history: step_defs passed to register, in order
    next_class,                     \* identity of the next decorated class
    confirm_result,                 \* history: outcome of the last confirm
    edits,                          \* number of widget edits so far
    pc, local, serialized,          \* concurrent callers of confirm
    input_dataclass,                \* EnhancedFormGenerator.input_dataclass: its fields
    extracted,                      \* history: results of extract_input_fields
    schemas,                        \* cell: the last result of generate_complete_schema
    clock,                          \* datetime.now()
    hash_seed,                      \* the process's string hash seed (set iteration order)
    raised,                         \* history: the last register call raised
    returned,                       \* the object the last get / get_all returned
    validate_args,                  \* rule, value and context of a call of validate
    validate_result                 \* cell: what the last call of validate gave

vars == <<CalculatedFieldRegistry_fields, WorkflowStepRegistry_steps, SCHEMA,
          session_keys, parameter, formel_bestaetigung, ma_bestaetigt,
          registered, step_log, next_class, confirm_result, edits,
          pc, local, serialized,
          input_dataclass, extracted, schemas, clock, hash_seed, raised, returned,
          validate_args, validate_result>>

registry_vars == <<CalculatedFieldRegistry_fields, WorkflowStepRegistry_steps,
                   registered, step_log, next_class>>
session_vars == <<session_keys, parameter, formel_bestaetigung, ma_bestaetigt,
                  confirm_result, edits>>
caller_vars == <<pc, local, serialized>>

generator_vars == <<input_dataclass, extracted, schemas, clock, hash_seed>>

api_vars == <<raised, returned>>

validate_vars == <<validate_args, validate_result>>

----------------------------------------------------------------------------
(* Bounds of the model.                                                    *)

MaxEdits == 1

\* values returned by the date widgets in the runs about the identity of a case
MaxDateEdits == 2
MaxSteps == 3
MaxCallers == 2

\* calls of extract_input_fields whose results are kept
MaxCalls == 2

\* readings of the clock
MaxClock == 1

----------------------------------------------------------------------------
(* Python values.                                                          *)

None == "None"

\* None where a date is expected
NoDate == << >>

EmptyDict == [x \in {} |-> TRUE]

\* d.get(k, default)
DictGet(d, k, default) == IF k \in DOMAIN d THEN d[k] ELSE default

\* d[k] = v
DictSet(d, k, v) == [x \in DOMAIN d \cup {k} |-> IF x = k THEN v ELSE d[x]]

Range(s) == {s[i] : i \in DOMAIN s}

\* (a1, a2) < (b1, b2) on Python tuples
TupleLess(a1, a2, b1, b2) == a1 < b1 \/ (a1 = b1 /\ a2 < b2)

\* d1 < d2 on datetime.date
DateLess(d1, d2) ==
    \/ d1[1] < d2[1]
    \/ d1[1] = d2[1] /\ TupleLess(d1[2], d1[3], d2[2], d2[3])

Max(a, b) == IF a >= b THEN a ELSE b

----------------------------------------------------------------------------
(* psvag_annotated.py: configuration and the computations the front end    *)
(* consults before it renders the calculated fields.                       *)

stichtag == <<2003, 1, 1>>
insolvenzdatum == <<2026, 1, 1>>

\* gesetzliches_rentenalter, in months (the code returns years as a float)
gesetzliches_rentenalter(geburtsdatum) ==
    LET geburtsjahr == geburtsdatum[1] IN
    IF geburtsjahr < 1947 THEN 65 * 12
    ELSE IF geburtsjahr >= 1964 THEN 67 * 12
    ELSE IF geburtsjahr <= 1958 THEN 65 * 12 + (geburtsjahr - 1946)
    ELSE 66 * 12 + (geburtsjahr - 1958) * 2

rentenbeginn(geburtsdatum) ==
    LET rentenalter == gesetzliches_rentenalter(geburtsdatum)
        rentenalter_jahre == rentenalter \div 12
        rentenalter_monate == rentenalter % 12
        rentenjahr == geburtsdatum[1] + rentenalter_jahre
        rentenmonat == geburtsdatum[2] + rentenalter_monate
    IN  IF rentenmonat > 12
        THEN <<rentenjahr + 1, rentenmonat - 12, 1>>
        ELSE <<rentenjahr, rentenmonat, 1>>

betriebszugehoerigkeit_jahre(eintrittsdatum, geburtsdatum) ==
    LET rb == rentenbeginn(geburtsdatum)
        jahre == rb[1] - eintrittsdatum[1]
    IN  IF TupleLess(rb[2], rb[3], eintrittsdatum[2], eintrittsdatum[3])
        THEN Max(0, jahre - 1)
        ELSE Max(0, jahre)

\* first component of unverfallbarkeit_pruefung's result
unverfallbarkeit_pruefung(geburtsdatum, eintritt, austritt) ==
    LET alter_bei_austritt ==
            (austritt[1] - geburtsdatum[1])
            - (IF TupleLess(austritt[2], austritt[3], geburtsdatum[2], geburtsdatum[3])
               THEN 1 ELSE 0)
        \* the code passes (eintritt, austritt) to betriebszugehoerigkeit_jahre
        dienstjahre == betriebszugehoerigkeit_jahre(eintritt, austritt)
        austrittsjahr == austritt[1]
    IN  IF austrittsjahr >= 2018
        THEN dienstjahre >= 3 /\ alter_bei_austritt >= 21
        ELSE IF austrittsjahr >= 2009
        THEN dienstjahre >= 5 /\ alter_bei_austritt >= 25
        ELSE dienstjahre >= 10 \/ (dienstjahre >= 5 /\ alter_bei_austritt >= 30)

----------------------------------------------------------------------------
(* annotations.py: CalculatedFieldRegistry.                                *)

\* position of key in the dict's insertion order, 0 when absent
IndexOfKey(fields, key) ==
    IF \E i \in DOMAIN fields : fields[i].key = key
    THEN CHOOSE i \in DOMAIN fields : fields[i].key = key
    ELSE 0

\* mutant: the first registration of a key wins
CalculatedFieldRegistry_register_keeps_first(fields, metadata) ==
    IF IndexOfKey(fields, metadata.key) = 0
    THEN Append(fields, metadata)
    ELSE fields

\* metadata['key'] raises KeyError
register_raises(metadata) == "key" \notin DOMAIN metadata

\* cls._fields[metadata['key']] = metadata
CalculatedFieldRegistry_register(fields, metadata) ==
    IF register_raises(metadata)
    THEN fields
    ELSE LET i == IndexOfKey(fields, metadata.key) IN
         IF i = 0
         THEN Append(fields, metadata)
         ELSE [fields EXCEPT ![i] = metadata]

CalculatedFieldRegistry_get_all(fields) == fields

\* cls._fields.get(key)
CalculatedFieldRegistry_get(fields, key) ==
    LET i == IndexOfKey(fields, key) IN
    IF i = 0 THEN None ELSE fields[i]

CalculatedFieldRegistry_clear == << >>

\* The object a caller holds after get or get_all. get returns the metadata
\* dict stored under the key, get_all returns cls._fields or cls._steps
\* itself; `live` tells that the object is still the one the registry holds:
\* clear binds a new dict or list, register binds a new metadata dict to
\* its key.
NoReference == [kind |-> "none", key |-> "", live |-> FALSE]

Reference(kind, key) == [kind |-> kind, key |-> key, live |-> TRUE]

\* the reference after CalculatedFieldRegistry.register(metadata)
AfterRegister(ref, metadata) ==
    IF ref.kind = "metadata" /\ "key" \in DOMAIN metadata /\ ref.key = metadata.key
    THEN [ref EXCEPT !.live = FALSE]
    ELSE ref

\* the reference after CalculatedFieldRegistry.clear()
AfterClearFields(ref) ==
    IF ref.kind \in {"metadata", "_fields"} THEN [ref EXCEPT !.live = FALSE] ELSE ref

\* the reference after WorkflowStepRegistry.clear()
AfterClearSteps(ref) ==
    IF ref.kind = "_steps" THEN [ref EXCEPT !.live = FALSE] ELSE ref

\* the metadata dict built by the decorator calculated_field
calculated_field(key, label, requires, needs_confirmation, confirmation_threshold) ==
    [key |-> key, label |-> label, requires |-> requires,
     needs_confirmation |-> needs_confirmation,
     confirmation_threshold |-> confirmation_threshold]

\* the four decorated methods of VersorgungsBerechnung, in declaration order
VersorgungsBerechnung_fields ==
    << calculated_field("dienstzeit", "Potenzielle Dienstzeit",
                        <<"eintrittsdatum", "geburtsdatum">>, TRUE, 3),
       calculated_field("mn_faktor", "m/n-Faktor",
                        <<"eintrittsdatum", "austrittsdatum", "geburtsdatum">>, TRUE, 3),
       calculated_field("grundrente_alt", "Monatliche Betriebsrente (Alt-Regelung)",
                        <<"eintrittsdatum", "geburtsdatum">>, TRUE, 3),
       calculated_field("grundrente_neu", "Monatliche Betriebsrente (Neu-Regelung)",
                        <<"eintrittsdatum", "geburtsdatum", "letztes_gehalt">>, TRUE, 3) >>

----------------------------------------------------------------------------
(* annotations.py: WorkflowStepRegistry.                                   *)

\* list.sort(key=order) places x after every element whose order is <= x.order
\* mutant: x is placed before the entries of equal order
InsertByOrder_before_equal(sorted, x) ==
    LET n == Cardinality({i \in DOMAIN sorted : sorted[i].order < x.order}) IN
    SubSeq(sorted, 1, n) \o <<x>> \o SubSeq(sorted, n + 1, Len(sorted))

InsertByOrder(sorted, x) ==
    LET n == Cardinality({i \in DOMAIN sorted : sorted[i].order <= x.order}) IN
    SubSeq(sorted, 1, n) \o <<x>> \o SubSeq(sorted, n + 1, Len(sorted))

RECURSIVE SortByOrder(_)
\* cls._steps.sort(key=lambda x: x['order']): a stable sort
SortByOrder(steps) ==
    IF steps = << >>
    THEN << >>
    ELSE InsertByOrder(SortByOrder(SubSeq(steps, 1, Len(steps) - 1)),
                       steps[Len(steps)])

\* the key function x['order'] raises KeyError on an element of steps; the
\* keys are computed before the list is reordered
sort_raises(steps) == \E i \in DOMAIN steps : "order" \notin DOMAIN steps[i]

\* cls._steps.append(step_def); cls._steps.sort(...)
WorkflowStepRegistry_register(steps, step_def) ==
    IF sort_raises(Append(steps, step_def))
    THEN Append(steps, step_def)
    ELSE SortByOrder(Append(steps, step_def))

WorkflowStepRegistry_get_all(steps) == steps

WorkflowStepRegistry_clear == << >>

\* the step_def dict built by the decorator workflow_step
workflow_step(order, title, class) ==
    [order |-> order, title |-> title, class |-> class]

\* the four decorated classes of psvag_annotated.py, in declaration order
Schritt_steps ==
    << workflow_step(1, "Eingabedaten", 1),
       workflow_step(2, "Unverfallbarkeitspruefung", 2),
       workflow_step(3, "Berechnete Leistung", 3),
       workflow_step(4, "PSVaG Leistungsberechnung", 4) >>

----------------------------------------------------------------------------
(* enhanced_form_generator.py: projection of the registry into the schema. *)

extract_calculated_fields(fields) ==
    [i \in DOMAIN fields |->
        [id |-> fields[i].key,
         label |-> fields[i].label,
         requires |-> fields[i].requires,
         needs_confirmation |-> fields[i].needs_confirmation,
         confirmation_threshold |-> fields[i].confirmation_threshold]]

----------------------------------------------------------------------------
(* streamlit_app.py: session state, example cases, input widgets.          *)

AllSessionKeys == {"parameter", "formel_bestaetigung", "ma_bestaetigt"}

\* st.session_state.parameter = {}: every key reads as None
EmptyParameter ==
    [id |-> "", geburtsdatum |-> NoDate, eintrittsdatum |-> NoDate,
     austrittsdatum |-> NoDate, letztes_gehalt |-> 0]

\* if key not in st.session_state: st.session_state[key] = {}
session_init(keys, key, current, default) ==
    IF key \in keys THEN current ELSE default

\* person['daten'] of the three example cases
BEISPIEL_MITARBEITER ==
    << [id |-> "max-alt", geburtsdatum |-> <<1960, 3, 15>>,
        eintrittsdatum |-> <<2000, 1, 1>>, austrittsdatum |-> insolvenzdatum,
        letztes_gehalt |-> 0],
       [id |-> "anna-neu", geburtsdatum |-> <<1980, 7, 22>>,
        eintrittsdatum |-> <<2010, 3, 1>>, austrittsdatum |-> insolvenzdatum,
        letztes_gehalt |-> 4500],
       [id |-> "tom-bagatell", geburtsdatum |-> <<1988, 9, 20>>,
        eintrittsdatum |-> <<2020, 1, 1>>, austrittsdatum |-> insolvenzdatum,
        letztes_gehalt |-> 2500] >>

\* bool(st.session_state.parameter.get(key))
Truthy(p, key) ==
    CASE key = "id" -> p.id # ""
      [] key = "letztes_gehalt" -> p.letztes_gehalt # 0
      [] key \in {"geburtsdatum", "eintrittsdatum", "austrittsdatum"} -> p[key] # NoDate
      [] OTHER -> FALSE

\* the values an operator types into the widget of an input field
WidgetValues(field) ==
    CASE field = "id" -> {"anna-neu"}
      [] field = "geburtsdatum" -> {<<1980, 7, 22>>}
      [] field = "eintrittsdatum" -> {<<2010, 3, 1>>}
      [] field = "austrittsdatum" -> {<<2010, 1, 1>>}
      [] field = "letztes_gehalt" -> {0}

InputFields ==
    {"id", "geburtsdatum", "eintrittsdatum", "austrittsdatum", "letztes_gehalt"}

\* the widget of an input field is rendered: depends_on / show_when of
\* letztes_gehalt (the only field of MitarbeiterFormular that declares them)
FieldRendered(field, p) ==
    field = "letztes_gehalt" =>
        /\ Truthy(p, "eintrittsdatum")
        /\ ~DateLess(p.eintrittsdatum, stichtag)

----------------------------------------------------------------------------
(* streamlit_app.py: Schritt 2 and Schritt 3, the confirmation quorum.     *)

\* the script reaches the loop over SCHEMA['calculated_fields']: st.stop()
\* of Schritt 2 did not end the run and the guard of Schritt 3 holds
Schritt3Reached(p) ==
    /\ Truthy(p, "geburtsdatum")
    /\ Truthy(p, "eintrittsdatum")
    /\ Truthy(p, "austrittsdatum") =>
          unverfallbarkeit_pruefung(p.geburtsdatum, p.eintrittsdatum,
                                    p.austrittsdatum)

\* the loop body reaches the rendering of calc: neither `continue` is taken
CalcRendered(calc, p) ==
    /\ \A i \in DOMAIN calc.requires : Truthy(p, calc.requires[i])
    /\ calc.id \in {"grundrente_alt", "grundrente_neu"} =>
          LET ist_alt == DateLess(p.eintrittsdatum, stichtag) IN
          /\ ~(calc.id = "grundrente_alt" /\ ~ist_alt)
          /\ ~(calc.id = "grundrente_neu" /\ ist_alt)

\* mutant: calc.get('confirmation_threshold') or 3, a threshold 0 reads as 3
Threshold_zero_is_default(calc) ==
    IF "confirmation_threshold" \in DOMAIN calc /\ calc.confirmation_threshold # 0
    THEN calc.confirmation_threshold
    ELSE 3

\* threshold = calc.get('confirmation_threshold', 3)
Threshold(calc) ==
    IF "confirmation_threshold" \in DOMAIN calc
    THEN calc.confirmation_threshold
    ELSE 3

\* bestaetigt = st.session_state.formel_bestaetigung.get(calc['id'], 0)
Bestaetigt(fb, calc) == DictGet(fb, calc.id, 0)

\* mutant: the comparison is strict
Geprueft_strict(bestaetigt, threshold) == bestaetigt > threshold

\* if bestaetigt >= threshold: st.success("Geprueft")
Geprueft(bestaetigt, threshold) == bestaetigt >= threshold

\* mutant: the personnel id is part of the identity
ma_id_with_personnel_id(p) == <<p.id, p.geburtsdatum, p.eintrittsdatum>>

\* ma_id = f"{geburtsdatum}_{eintrittsdatum}"; str() of two dates (or None)
\* joined by "_" is one string per pair of values
ma_id(p) == <<p.geburtsdatum, p.eintrittsdatum>>

\* ma_geprueft = st.session_state.ma_bestaetigt.get(ma_id, {}).get(calc['id'], False)
ma_geprueft(mb, mid, calc) == DictGet(DictGet(mb, mid, EmptyDict), calc.id, FALSE)

\* mutant: the per-case flag is not consulted
ButtonOffered_ignores_flag(calc, p, fb, mb) ==
    /\ DictGet(fb, calc.id, 0) < calc.confirmation_threshold
    /\ calc.needs_confirmation

\* mutant: needs_confirmation is not consulted
ButtonGuard_ignores_needs_confirmation(calc, bestaetigt, geprueft) ==
    LET threshold == Threshold(calc) IN
    /\ ~Geprueft(bestaetigt, threshold)
    /\ ~geprueft
    /\ bestaetigt < threshold

\* mutant: the counter is not compared with the threshold
ButtonGuard_ignores_threshold(calc, bestaetigt, geprueft) ==
    /\ DictGet(calc, "needs_confirmation", TRUE)
    /\ ~geprueft

\* lines 359-367 on the values read: the confirm button of calc is rendered
ButtonGuard(calc, bestaetigt, geprueft) ==
    LET threshold == Threshold(calc) IN
    /\ ~Geprueft(bestaetigt, threshold)
    /\ DictGet(calc, "needs_confirmation", TRUE)
    /\ ~geprueft
    /\ bestaetigt < threshold

\* the confirm button of calc is rendered for the loaded case p
ButtonOffered(calc, p, fb, mb) ==
    ButtonGuard(calc, Bestaetigt(fb, calc), ma_geprueft(mb, ma_id(p), calc))

\* mutant: every counter present is raised, not only the one of calc
ConfirmCount_all(fb, calc) ==
    [k \in DOMAIN fb \cup {calc.id} |-> DictGet(fb, k, 0) + 1]

\* mutant: the value read is written back
WriteCount_no_increment(fb, calc, bestaetigt) == DictSet(fb, calc.id, bestaetigt)

\* st.session_state.formel_bestaetigung[calc['id']] = bestaetigt + 1
WriteCount(fb, calc, bestaetigt) == DictSet(fb, calc.id, bestaetigt + 1)

\* lines 357 and 369 in one run of the script
ConfirmCount(fb, calc) == WriteCount(fb, calc, Bestaetigt(fb, calc))

\* mutant: the dict of flags is replaced by one that holds this flag only
ConfirmFlag_replaces(mb, mid, calc) ==
    [m \in {mid} |-> [k \in {calc.id} |-> TRUE]]

\* mutant: lines 370-372 are left out, no flag is written
ConfirmFlag_not_written(mb, mid, calc) == mb

\* st.session_state.ma_bestaetigt[ma_id][calc['id']] = True
ConfirmFlag(mb, mid, calc) ==
    DictSet(mb, mid, DictSet(DictGet(mb, mid, EmptyDict), calc.id, TRUE))

----------------------------------------------------------------------------
(* Initial states.                                                         *)

\* a fresh browser session: st.session_state holds no key yet
InitSession ==
    /\ session_keys = {}
    /\ parameter = EmptyParameter
    /\ formel_bestaetigung = EmptyDict
    /\ ma_bestaetigt = EmptyDict
    /\ confirm_result = "none"
    /\ edits = 0

InitCallers ==
    /\ pc = << >>
    /\ local = << >>
    /\ serialized = FALSE

\* no generator has been constructed
InitNoGenerator ==
    /\ input_dataclass = << >>
    /\ extracted = << >>
    /\ schemas = << >>
    /\ clock = 0
    /\ hash_seed = 0

\* no registry call has been made, validate is not called
InitNoCall ==
    /\ raised = FALSE
    /\ returned = NoReference
    /\ validate_args = << >>
    /\ validate_result = << >>

\* the registries after the decorators of `fields` and `steps` have run, and
\* the schema generated from them
InitRegistries(fields, steps) ==
    /\ CalculatedFieldRegistry_fields = fields
    /\ WorkflowStepRegistry_steps = steps
    /\ registered = [k \in {fields[i].key : i \in DOMAIN fields} |->
                        [last |-> fields[IndexOfKey(fields, k)], replaced |-> FALSE]]
    /\ step_log = steps
    /\ next_class = Len(steps) + 1
    /\ SCHEMA = extract_calculated_fields(fields)

\* the front end over a schema that holds a pair of the calculated fields of
\* VersorgungsBerechnung, in their declaration order
InitQuorum ==
    /\ \E i, j \in DOMAIN VersorgungsBerechnung_fields :
          /\ i < j
          /\ InitRegistries(<<VersorgungsBerechnung_fields[i],
                              VersorgungsBerechnung_fields[j]>>,
                            Schritt_steps)
    /\ InitSession
    /\ InitCallers
    /\ InitNoGenerator
    /\ InitNoCall

----------------------------------------------------------------------------
(* Actions of the front end: every action is one run of the script.        *)

\* lines 56-61 of the run
RunParameter == session_init(session_keys, "parameter", parameter, EmptyParameter)
RunFormelBestaetigung ==
    session_init(session_keys, "formel_bestaetigung", formel_bestaetigung, EmptyDict)
RunMaBestaetigt ==
    session_init(session_keys, "ma_bestaetigt", ma_bestaetigt, EmptyDict)

\* st.button("Laden"): st.session_state.parameter = person['daten'].copy()
Laden(idx) ==
    /\ parameter' = BEISPIEL_MITARBEITER[idx]
    /\ formel_bestaetigung' = RunFormelBestaetigung
    /\ ma_bestaetigt' = RunMaBestaetigt
    /\ session_keys' = AllSessionKeys
    /\ UNCHANGED <<validate_vars, generator_vars, api_vars, confirm_result, edits, SCHEMA, registry_vars, caller_vars>>

\* an input widget returns a new value: st.session_state.parameter[field['id']] = val
Edit(field, val) ==
    /\ edits < MaxEdits
    /\ FieldRendered(field, RunParameter)
    /\ parameter' = [RunParameter EXCEPT ![field] = val]
    /\ formel_bestaetigung' = RunFormelBestaetigung
    /\ ma_bestaetigt' = RunMaBestaetigt
    /\ session_keys' = AllSessionKeys
    /\ edits' = edits + 1
    /\ UNCHANGED <<validate_vars, generator_vars, api_vars, confirm_result, SCHEMA, registry_vars, caller_vars>>

\* the operator confirms the calculated field SCHEMA[i] of the loaded case:
\* the click on the button of lines 368-373 when it is rendered, nothing otherwise
Confirm(i) ==
    LET calc == SCHEMA[i]
        p == RunParameter
        fb == RunFormelBestaetigung
        mb == RunMaBestaetigt
        offered == ButtonOffered(calc, p, fb, mb)
    IN  /\ Schritt3Reached(p)
        /\ CalcRendered(calc, p)
        /\ formel_bestaetigung' = IF offered THEN ConfirmCount(fb, calc) ELSE fb
        /\ ma_bestaetigt' = IF offered THEN ConfirmFlag(mb, ma_id(p), calc) ELSE mb
        /\ parameter' = p
        /\ session_keys' = AllSessionKeys
        /\ confirm_result' = IF offered THEN "counted" ELSE "absorbed"
        /\ UNCHANGED <<validate_vars, generator_vars, api_vars, edits, SCHEMA, registry_vars, caller_vars>>

NextQuorum ==
    \/ \E idx \in DOMAIN BEISPIEL_MITARBEITER : Laden(idx)
    \/ \E field \in InputFields : \E val \in WidgetValues(field) : Edit(field, val)
    \/ \E i \in DOMAIN SCHEMA : Confirm(i)

SpecQuorum == InitQuorum /\ [][NextQuorum]_vars

----------------------------------------------------------------------------
(* The front end over declarations that ask for no confirmation.           *)

\* needs_confirmation and confirmation_threshold of a declaration: the
\* defaults of calculated_field, a threshold of 0, no need of a confirmation
QuorumSettings ==
    {[needs_confirmation |-> TRUE, confirmation_threshold |-> 3],
     [needs_confirmation |-> TRUE, confirmation_threshold |-> 0],
     [needs_confirmation |-> FALSE, confirmation_threshold |-> 3]}

\* the declaration `metadata` with other arguments needs_confirmation and
\* confirmation_threshold
DeclaredWith(metadata, setting) ==
    calculated_field(metadata.key, metadata.label, metadata.requires,
                     setting.needs_confirmation, setting.confirmation_threshold)

\* the front end over a schema that holds a pair of the calculated fields of
\* VersorgungsBerechnung, each declared with one of the settings
InitExempt ==
    /\ \E i, j \in DOMAIN VersorgungsBerechnung_fields :
       \E si, sj \in QuorumSettings :
          /\ i < j
          /\ InitRegistries(<<DeclaredWith(VersorgungsBerechnung_fields[i], si),
                              DeclaredWith(VersorgungsBerechnung_fields[j], sj)>>,
                            Schritt_steps)
    /\ InitSession
    /\ InitCallers
    /\ InitNoGenerator
    /\ InitNoCall

SpecExempt == InitExempt /\ [][NextQuorum]_vars

----------------------------------------------------------------------------
(* The front end with the dates of the loaded case changed more than once. *)

\* the inputs that ma_id reads
DateInputs == {"geburtsdatum", "eintrittsdatum"}

\* st.date_input returns a new value (lines 247-251):
\* st.session_state.parameter[field['id']] = val
DateInput(field, val) ==
    /\ field \in DateInputs
    /\ edits < MaxDateEdits
    /\ parameter' = [RunParameter EXCEPT ![field] = val]
    /\ formel_bestaetigung' = RunFormelBestaetigung
    /\ ma_bestaetigt' = RunMaBestaetigt
    /\ session_keys' = AllSessionKeys
    /\ edits' = edits + 1
    /\ UNCHANGED <<validate_vars, generator_vars, api_vars, confirm_result, SCHEMA, registry_vars, caller_vars>>

NextIdentity ==
    \/ \E idx \in DOMAIN BEISPIEL_MITARBEITER : Laden(idx)
    \/ \E field \in InputFields : \E val \in WidgetValues(field) : Edit(field, val)
    \/ \E field \in DateInputs : \E val \in WidgetValues(field) : DateInput(field, val)
    \/ \E i \in DOMAIN SCHEMA : Confirm(i)

SpecIdentity == InitQuorum /\ [][NextIdentity]_vars

----------------------------------------------------------------------------
(* Actions of the registries and of the schema generation.                 *)

\* the definitions passed to @calculated_field while the front end runs: the
\* declaration of `dienstzeit` again, with another threshold or without the
\* need of a confirmation
DienstzeitInputs ==
    {calculated_field("dienstzeit", "Potenzielle Dienstzeit",
                      <<"eintrittsdatum", "geburtsdatum">>, n, t) :
        n \in BOOLEAN, t \in {2, 3}}

\* the definitions passed to @calculated_field in the registry's own runs
RegistryInputs ==
    {calculated_field(k, l, r, n, t) :
        k \in {"x", "dienstzeit"}, l \in {"label 1", "label 2"},
        r \in {<<"a", "b">>, <<"eintrittsdatum", "geburtsdatum">>},
        n \in BOOLEAN, t \in {2, 3}}

StepOrders == {1, 2}

\* @calculated_field(...): CalculatedFieldRegistry.register(metadata)
RegisterCalculatedField(metadata) ==
    /\ CalculatedFieldRegistry_fields' =
          CalculatedFieldRegistry_register(CalculatedFieldRegistry_fields, metadata)
    /\ raised' = register_raises(metadata)
    /\ registered' =
          IF register_raises(metadata)
          THEN registered
          ELSE DictSet(registered, metadata.key,
                       [last |-> metadata,
                        replaced |-> metadata.key \in DOMAIN registered])
    /\ returned' = AfterRegister(returned, metadata)
    /\ UNCHANGED <<validate_vars, generator_vars, WorkflowStepRegistry_steps, step_log, next_class, SCHEMA,
                   session_vars, caller_vars>>

\* CalculatedFieldRegistry.clear()
ClearCalculatedFields ==
    /\ CalculatedFieldRegistry_fields' = CalculatedFieldRegistry_clear
    /\ registered' = EmptyDict
    /\ returned' = AfterClearFields(returned)
    /\ UNCHANGED <<validate_vars, generator_vars, raised, WorkflowStepRegistry_steps, step_log, next_class, SCHEMA,
                   session_vars, caller_vars>>

\* @workflow_step(order, title) on a new class
RegisterWorkflowStep(order, title) ==
    /\ next_class <= MaxSteps
    /\ LET step_def == workflow_step(order, title, next_class) IN
       /\ WorkflowStepRegistry_steps' =
             WorkflowStepRegistry_register(WorkflowStepRegistry_steps, step_def)
       /\ step_log' = Append(step_log, step_def)
       /\ raised' = sort_raises(Append(WorkflowStepRegistry_steps, step_def))
    /\ next_class' = next_class + 1
    /\ UNCHANGED <<validate_vars, generator_vars, returned, CalculatedFieldRegistry_fields, registered, SCHEMA,
                   session_vars, caller_vars>>

\* WorkflowStepRegistry.clear()
ClearWorkflowSteps ==
    /\ WorkflowStepRegistry_steps' = WorkflowStepRegistry_clear
    /\ step_log' = << >>
    /\ returned' = AfterClearSteps(returned)
    /\ UNCHANGED <<validate_vars, generator_vars, raised, CalculatedFieldRegistry_fields, registered, next_class, SCHEMA,
                   session_vars, caller_vars>>

\* the schema is generated from the registry and read by the front end:
\* generate_complete_schema, save_all, load_schema
load_schema ==
    /\ SCHEMA' = extract_calculated_fields(
                     CalculatedFieldRegistry_get_all(CalculatedFieldRegistry_fields))
    /\ UNCHANGED <<validate_vars, generator_vars, api_vars, registry_vars, session_vars, caller_vars>>

\* after `import annotations`: both registries are empty, no schema field
InitEmpty ==
    /\ InitRegistries(<< >>, << >>)
    /\ InitSession
    /\ InitCallers
    /\ InitNoGenerator
    /\ InitNoCall

NextRegistry ==
    \/ \E metadata \in RegistryInputs : RegisterCalculatedField(metadata)
    \/ ClearCalculatedFields
    \/ \E order \in StepOrders : RegisterWorkflowStep(order, "Schritt")
    \/ ClearWorkflowSteps

SpecRegistry == InitEmpty /\ [][NextRegistry]_vars

Next ==
    \/ \E metadata \in DienstzeitInputs : RegisterCalculatedField(metadata)
    \/ ClearCalculatedFields
    \/ load_schema
    \/ \E idx \in DOMAIN BEISPIEL_MITARBEITER : Laden(idx)
    \/ \E field \in InputFields : \E val \in WidgetValues(field) : Edit(field, val)
    \/ \E i \in DOMAIN SCHEMA : Confirm(i)

Spec == InitEmpty /\ [][Next]_vars

----------------------------------------------------------------------------
(* Python values of the schema generator.                                  *)
(*   - a str whose characters are read (field names, labels, group names)  *)
(*     is a sequence of one-character strings; keys of dicts and the       *)
(*     names of types, ui types and rules are TLA+ strings;                *)
(*   - a value that may be None is a cell: << >> for None, <<v>> for v;    *)
(*   - the value of `validation` carries its Python type: PyStr or PyList; *)
(*   - of the keys of a field definition the model keeps id, field_type,   *)
(*     label, type, required, hint, group, order, validation, options and  *)
(*     width; placeholder, min_value, max_value, depends_on, show_when and *)
(*     css_class are read with metadata.get(key) like hint and left out.   *)

\* the characters the model uses, in ascending order of their code points
AsciiOrder ==
    << " ", "2", "A", "B", "C", "D", "E", "F", "G", "H", "I", "J", "K", "L", "M",
       "N", "O", "P", "Q", "R", "S", "T", "U", "V", "W", "X", "Y", "Z", "_",
       "a", "b", "c", "d", "e", "f", "g", "h", "i", "j", "k", "l", "m",
       "n", "o", "p", "q", "r", "s", "t", "u", "v", "w", "x", "y", "z" >>

\* ord(c), up to a monotone renumbering
Ord(c) == CHOOSE i \in DOMAIN AsciiOrder : AsciiOrder[i] = c

IsUpper(c) == Ord(c) >= Ord("A") /\ Ord(c) <= Ord("Z")

IsLower(c) == Ord(c) >= Ord("a") /\ Ord(c) <= Ord("z")

\* c.upper() and c.lower()
Upper(c) == IF IsLower(c) THEN AsciiOrder[Ord(c) - Ord("a") + Ord("A")] ELSE c

Lower(c) == IF IsUpper(c) THEN AsciiOrder[Ord(c) - Ord("A") + Ord("a")] ELSE c

RECURSIVE StrLess(_, _)
\* s < t on str: by code points, a proper prefix first
StrLess(a, b) ==
    IF b = << >> THEN FALSE
    ELSE IF a = << >> THEN TRUE
    ELSE IF a[1] # b[1] THEN Ord(a[1]) < Ord(b[1])
    ELSE StrLess(Tail(a), Tail(b))

\* s.replace('_', ' ')
ReplaceUnderscore(a) == [i \in DOMAIN a |-> IF a[i] = "_" THEN " " ELSE a[i]]

RECURSIVE TitleFrom(_, _)
\* str.title(): a cased character is upper case after an uncased one and
\* lower case after a cased one
TitleFrom(a, previous_is_cased) ==
    IF a = << >> THEN << >>
    ELSE LET c == a[1]
             cased == IsUpper(c) \/ IsLower(c)
         IN  <<IF ~cased THEN c
               ELSE IF previous_is_cased THEN Lower(c) ELSE Upper(c)>>
             \o TitleFrom(Tail(a), cased)

Title(a) == TitleFrom(a, FALSE)

PyStr(name) == [str |-> name]

PyList(items) == [list |-> items]

\* isinstance(v, list)
IsList(v) == "list" \in DOMAIN v

\* d.get(k) and d.get(k, default) as cells
Get(d, k) == IF k \in DOMAIN d THEN <<d[k]>> ELSE << >>

GetDefault(d, k, default) == IF k \in DOMAIN d THEN <<d[k]>> ELSE <<default>>

\* a declared type: a class, or Union[...] with its members
Class(name) == [origin |-> "", args |-> <<name>>]

Union(members) == [origin |-> "Union", args |-> members]

Optional(name) == Union(<<name, "NoneType">>)

----------------------------------------------------------------------------
(* annotations.py: ui_field.                                               *)

DefaultGroup == <<"d", "e", "f", "a", "u", "l", "t">>

\* the parameters of ui_field whose default is not None
ui_field_defaults == [group |-> DefaultGroup, order |-> 0, width |-> "full"]

ui_key(param) ==
    CASE param = "label" -> "ui_label"
      [] param = "typ" -> "ui_type"
      [] param = "required" -> "ui_required"
      [] param = "hint" -> "ui_hint"
      [] param = "group" -> "ui_group"
      [] param = "order" -> "ui_order"
      [] param = "validation" -> "ui_validation"
      [] param = "options" -> "ui_options"
      [] param = "width" -> "ui_width"

\* ui_field(**kwargs): kwargs holds the arguments that are given, none of
\* them None
ui_field(kwargs) ==
    LET given == DOMAIN kwargs \cup DOMAIN ui_field_defaults
        value(param) == IF param \in DOMAIN kwargs THEN kwargs[param]
                        ELSE ui_field_defaults[param]
        stored(param) ==
            IF param = "validation"
            THEN IF IsList(value(param)) THEN value(param)
                 ELSE PyList(<<value(param).str>>)
            ELSE value(param)
    IN  [k \in {ui_key(param) : param \in given} |->
            stored(CHOOSE param \in given : ui_key(param) = k)]

----------------------------------------------------------------------------
(* enhanced_form_generator.py: inference of type, label and requiredness.  *)

\* the member a Union is replaced by: next((arg for arg in args if arg is not
\* type(None)), str)
FirstNotNone(args) ==
    IF \E i \in DOMAIN args : args[i] # "NoneType"
    THEN args[CHOOSE i \in DOMAIN args :
                 /\ args[i] # "NoneType"
                 /\ \A j \in 1..(i - 1) : args[j] = "NoneType"]
    ELSE "str"

type_map(name) ==
    CASE name = "str" -> "text"
      [] name = "int" -> "number"
      [] name = "float" -> "number"
      [] name = "bool" -> "checkbox"
      [] name = "date" -> "date"
      [] OTHER -> "text"

_infer_ui_type(python_type) ==
    type_map(IF python_type.origin = "Union"
             THEN FirstNotNone(python_type.args)
             ELSE python_type.args[1])

_infer_label(field_name) == Title(ReplaceUnderscore(field_name))

\* _is_required on the type hint of the field
_is_required(field_type) ==
    IF field_type.origin = "Union"
    THEN "NoneType" \notin Range(field_type.args)
    ELSE TRUE

----------------------------------------------------------------------------
(* enhanced_form_generator.py: extract_input_fields.                       *)

\* the dict of lines 107-125, every value a cell
field_def_cells(field_obj) ==
    LET metadata == field_obj.metadata
        ui_label == Get(metadata, "ui_label")
        ui_type == Get(metadata, "ui_type")
    IN  [id |-> <<field_obj.name>>,
         field_type |-> <<"input">>,
         \* metadata.get('ui_label') or self._infer_label(field_name)
         label |-> IF ui_label # << >> /\ ui_label[1] # << >>
                   THEN ui_label ELSE <<_infer_label(field_obj.name)>>,
         \* metadata.get('ui_type') or self._infer_ui_type(field_obj.type)
         type |-> IF ui_type # << >> /\ ui_type[1] # ""
                  THEN ui_type ELSE <<_infer_ui_type(field_obj.type)>>,
         required |-> GetDefault(metadata, "ui_required", _is_required(field_obj.type)),
         hint |-> Get(metadata, "ui_hint"),
         group |-> GetDefault(metadata, "ui_group", DefaultGroup),
         order |-> GetDefault(metadata, "ui_order", 0),
         validation |-> GetDefault(metadata, "ui_validation", PyList(<< >>)),
         options |-> Get(metadata, "ui_options"),
         width |-> GetDefault(metadata, "ui_width", "full")]

\* {k: v for k, v in field_def.items() if v is not None}
cleanup_none(cells) ==
    [k \in {k \in DOMAIN cells : cells[k] # << >>} |-> cells[k][1]]

\* mutant: a single rule name stays a str
ensure_validation_list_keeps_str(field_def) ==
    IF "validation" \notin DOMAIN field_def
    THEN [k \in DOMAIN field_def \cup {"validation"} |->
             IF k = "validation" THEN PyList(<< >>) ELSE field_def[k]]
    ELSE field_def

\* lines 131-134: validation is always a list
ensure_validation_list(field_def) ==
    IF "validation" \notin DOMAIN field_def
    THEN [k \in DOMAIN field_def \cup {"validation"} |->
             IF k = "validation" THEN PyList(<< >>) ELSE field_def[k]]
    ELSE IF ~IsList(field_def.validation)
    THEN [field_def EXCEPT !.validation = PyList(<<field_def.validation.str>>)]
    ELSE field_def

\* the field definition appended to fields_list
field_def_of(field_obj) ==
    ensure_validation_list(cleanup_none(field_def_cells(field_obj)))

\* mutant: the groups are compared without regard to case
FieldKeyLess_ignores_case(f, g) ==
    LET fg == [i \in DOMAIN f.group |-> Lower(f.group[i])]
        gg == [i \in DOMAIN g.group |-> Lower(g.group[i])]
    IN  \/ StrLess(fg, gg)
        \/ fg = gg /\ DictGet(f, "order", 0) < DictGet(g, "order", 0)

\* (f['group'], f.get('order', 0)) < (g['group'], g.get('order', 0))
FieldKeyLess(f, g) ==
    \/ StrLess(f.group, g.group)
    \/ f.group = g.group /\ DictGet(f, "order", 0) < DictGet(g, "order", 0)

\* mutant: equal keys are ordered by the hash seed of the process
InsertField_hash_ties(sorted, x) ==
    LET n == Cardinality({i \in DOMAIN sorted :
                             IF hash_seed = 0
                             THEN ~FieldKeyLess(x, sorted[i])
                             ELSE FieldKeyLess(sorted[i], x)}) IN
    SubSeq(sorted, 1, n) \o <<x>> \o SubSeq(sorted, n + 1, Len(sorted))

\* place of x in the stable sort: after the entries whose key is not greater
InsertField(sorted, x) ==
    LET n == Cardinality({i \in DOMAIN sorted : ~FieldKeyLess(x, sorted[i])}) IN
    SubSeq(sorted, 1, n) \o <<x>> \o SubSeq(sorted, n + 1, Len(sorted))

RECURSIVE SortFields(_)
\* fields_list.sort(key=lambda f: (f['group'], f.get('order', 0)))
SortFields(fields_list) ==
    IF fields_list = << >>
    THEN << >>
    ELSE InsertField(SortFields(SubSeq(fields_list, 1, Len(fields_list) - 1)),
                     fields_list[Len(fields_list)])

\* extract_input_fields over fields(self.input_dataclass)
extract_input_fields(dataclass_fields) ==
    SortFields([i \in DOMAIN dataclass_fields |-> field_def_of(dataclass_fields[i])])

----------------------------------------------------------------------------
(* enhanced_form_generator.py: the assembled schema.                       *)

\* extract_workflow: the steps of the registry
extract_workflow(steps) ==
    [steps |-> [i \in DOMAIN steps |->
                   [order |-> steps[i].order, title |-> steps[i].title]]]

\* mutant: a new group is put in front of the groups
AddToGroups_new_group_first(groups, field_def) ==
    IF \E g \in DOMAIN groups : groups[g].name = field_def.group
    THEN LET g == CHOOSE g \in DOMAIN groups : groups[g].name = field_def.group
         IN  [groups EXCEPT ![g].fields = Append(@, field_def)]
    ELSE <<[name |-> field_def.group, fields |-> <<field_def>>]>> \o groups

\* lines 219-224 for one field_def; the dict `groups` is the sequence of its
\* items in insertion order
AddToGroups(groups, field_def) ==
    IF \E g \in DOMAIN groups : groups[g].name = field_def.group
    THEN LET g == CHOOSE g \in DOMAIN groups : groups[g].name = field_def.group
         IN  [groups EXCEPT ![g].fields = Append(@, field_def)]
    ELSE Append(groups, [name |-> field_def.group, fields |-> <<field_def>>])

RECURSIVE GroupFields(_)
\* the loop of lines 219-224
GroupFields(input_fields) ==
    IF input_fields = << >>
    THEN << >>
    ELSE AddToGroups(GroupFields(SubSeq(input_fields, 1, Len(input_fields) - 1)),
                     input_fields[Len(input_fields)])

\* the rule names of the model
RuleNames == <<"positive", "required">>

HashSeeds == {0, 1}

\* list(rules) of a set of str: the order of iteration follows the hashes of
\* the members, which the hash seed of the process fixes; two orders
ListOfSet(rules, seed) ==
    SelectSeq(IF seed = 0 THEN RuleNames
              ELSE [i \in DOMAIN RuleNames |-> RuleNames[Len(RuleNames) + 1 - i]],
              LAMBDA rule : rule \in rules)

\* the set `rules` of lines 194-198
UsedRules(fields_list) ==
    UNION {Range(DictGet(fields_list[i], "validation", PyList(<< >>)).list) :
              i \in DOMAIN fields_list}

\* mutant: only the rules of the first field are collected
_extract_validation_rules_first_field(fields_list, seed) ==
    LET rules == IF fields_list = << >> THEN {}
                 ELSE Range(fields_list[1].validation.list)
    IN  [rules |-> ListOfSet(rules, seed),
         implementations |-> [rule \in rules |-> "ValidationRule." \o rule]]

_extract_validation_rules(fields_list, seed) ==
    LET rules == UsedRules(fields_list)
    IN  [rules |-> ListOfSet(rules, seed),
         implementations |-> [rule \in rules |-> "ValidationRule." \o rule]]

\* generate_complete_schema of a generator without config; title and
\* class_name of meta are constants of the record type and left out
generate_complete_schema(dataclass_fields, fields, steps, now, seed) ==
    LET input_fields == extract_input_fields(dataclass_fields)
        calc_fields == extract_calculated_fields(fields)
        workflow == extract_workflow(steps)
    IN  [meta |-> [generated_at |-> now],
         config |-> EmptyDict,
         input_fields |-> input_fields,
         calculated_fields |-> calc_fields,
         all_fields |-> input_fields \o calc_fields,
         groups |-> GroupFields(input_fields),
         workflow |-> workflow,
         validation_rules |-> _extract_validation_rules(input_fields, seed)]

----------------------------------------------------------------------------
(* annotations.py: ValidationRuleImpl.validate.                            *)
(*   - a Python value is a record with one key that names its type: none,  *)
(*     str (a sequence of characters), date (a triple), int, list; numbers *)
(*     are integers;                                                       *)
(*   - the outcome of an expression is the value it returns or the         *)
(*     exception it raises.                                                *)

PyNone == [none |-> TRUE]

PyDate(d) == [date |-> d]

PyInt(n) == [int |-> n]

Returned(v) == [exc |-> "", value |-> v]

Raised(exc) == [exc |-> exc, value |-> PyNone]

\* the rest of a block runs on the value of an expression that did not raise
Then(outcome, rest(_)) == IF outcome.exc # "" THEN outcome ELSE rest(outcome.value)

\* not value
IsFalsy(v) ==
    CASE "none" \in DOMAIN v -> TRUE
      [] "str" \in DOMAIN v -> v.str = << >>
      [] "int" \in DOMAIN v -> v.int = 0
      [] "list" \in DOMAIN v -> v.list = << >>
      [] "date" \in DOMAIN v -> FALSE

Digits == <<"0", "1", "2", "3", "4", "5", "6", "7", "8", "9">>

IsDigit(c) == c \in Range(Digits)

DigitValue(c) == (CHOOSE i \in DOMAIN Digits : Digits[i] = c) - 1

RECURSIVE NumberOf(_)
\* the number that a sequence of digits writes
NumberOf(chars) ==
    IF chars = << >> THEN 0
    ELSE 10 * NumberOf(SubSeq(chars, 1, Len(chars) - 1)) + DigitValue(chars[Len(chars)])

IsLeap(year) == (year % 4 = 0 /\ year % 100 # 0) \/ year % 400 = 0

DaysInMonth(year, month) ==
    IF month = 2 THEN (IF IsLeap(year) THEN 29 ELSE 28)
    ELSE IF month \in {4, 6, 9, 11} THEN 30 ELSE 31

\* date.fromisoformat(s) on strings that have the shape YYYY-MM-DD or another
\* shape that is no ISO format
date_fromisoformat(chars) ==
    IF /\ Len(chars) = 10
       /\ chars[5] = "-" /\ chars[8] = "-"
       /\ \A i \in {1, 2, 3, 4, 6, 7, 9, 10} : IsDigit(chars[i])
    THEN LET year == NumberOf(SubSeq(chars, 1, 4))
             month == NumberOf(SubSeq(chars, 6, 7))
             day == NumberOf(SubSeq(chars, 9, 10))
         IN  IF /\ year >= 1
                /\ month \in 1..12
                /\ day \in 1..DaysInMonth(year, month)
             THEN Returned(PyDate(<<year, month, day>>))
             ELSE Raised("ValueError")
    ELSE Raised("ValueError")

\* date.fromisoformat(x) if isinstance(x, str) else x
as_date(v) == IF "str" \in DOMAIN v THEN date_fromisoformat(v.str) ELSE Returned(v)

\* float(x) on None, dates, lists, ints and strings that are an integer
\* literal with or without sign or no number at all
float(v) ==
    CASE "int" \in DOMAIN v -> Returned(v.int)
      [] "str" \in DOMAIN v ->
            LET signed == v.str # << >> /\ v.str[1] \in {"-", "+"}
                digits == IF signed THEN Tail(v.str) ELSE v.str
            IN  IF digits # << >> /\ \A i \in DOMAIN digits : IsDigit(digits[i])
                THEN Returned(IF signed /\ v.str[1] = "-"
                              THEN 0 - NumberOf(digits) ELSE NumberOf(digits))
                ELSE Raised("ValueError")
      [] OTHER -> Raised("TypeError")

RECURSIVE ListLess(_, _)
\* a < b on lists of int
ListLess(a, b) ==
    IF b = << >> THEN FALSE
    ELSE IF a = << >> THEN TRUE
    ELSE IF a[1] # b[1] THEN a[1] < b[1]
    ELSE ListLess(Tail(a), Tail(b))

\* a < b
PyLess(a, b) ==
    CASE "date" \in DOMAIN a /\ "date" \in DOMAIN b -> Returned(DateLess(a.date, b.date))
      [] "int" \in DOMAIN a /\ "int" \in DOMAIN b -> Returned(a.int < b.int)
      [] "list" \in DOMAIN a /\ "list" \in DOMAIN b -> Returned(ListLess(a.list, b.list))
      [] OTHER -> Raised("TypeError")

\* a >= b
PyGreaterEq(a, b) ==
    CASE "date" \in DOMAIN a /\ "date" \in DOMAIN b -> Returned(~DateLess(a.date, b.date))
      [] "int" \in DOMAIN a /\ "int" \in DOMAIN b -> Returned(a.int >= b.int)
      [] "list" \in DOMAIN a /\ "list" \in DOMAIN b -> Returned(~ListLess(a.list, b.list))
      [] OTHER -> Raised("TypeError")

\* mutant: except ValueError
Catches_value_error_only(exc) == exc = "ValueError"

\* except: catches every exception
Catches(exc) == TRUE

\* try: body / except: return handler
TryExcept(body, handler) ==
    IF body.exc # "" /\ Catches(body.exc) THEN Returned(handler) ELSE body

\* date.today() at a reading of the clock; a step of the clock is a day
date_today(now) == <<2026, 1, 1 + now>>

\* context or {}; the argument is a cell
ContextOrEmpty(context) ==
    IF context = << >> THEN EmptyDict ELSE context[1]

\* the pair that a branch returns for its value of valid
Verdict(valid, message) == <<valid, IF ~valid THEN message ELSE "">>

\* mutant of the branch: the message is returned for a valid value too
validate_required_always_message(value) ==
    LET valid == ~("none" \in DOMAIN value) /\ ~("str" \in DOMAIN value /\ value.str = << >>)
    IN  Returned(<<valid, "Dieses Feld ist erforderlich">>)

\* lines 246-248
validate_required(value) ==
    LET valid == ~("none" \in DOMAIN value) /\ ~("str" \in DOMAIN value /\ value.str = << >>)
    IN  Returned(Verdict(valid, "Dieses Feld ist erforderlich"))

\* mutant of the branch: today counts as past
validate_date_in_past_or_today(value, today) ==
    IF IsFalsy(value)
    THEN Returned(<<TRUE, "">>)
    ELSE TryExcept(
            Then(as_date(value), LAMBDA d :
            Then(PyGreaterEq(PyDate(today), d), LAMBDA valid :
            Returned(Verdict(valid, "Datum muss in der Vergangenheit liegen")))),
            <<FALSE, "Ungueltiges Datum">>)

\* lines 250-258
validate_date_in_past(value, today) ==
    IF IsFalsy(value)
    THEN Returned(<<TRUE, "">>)
    ELSE TryExcept(
            Then(as_date(value), LAMBDA d :
            Then(PyLess(d, PyDate(today)), LAMBDA valid :
            Returned(Verdict(valid, "Datum muss in der Vergangenheit liegen")))),
            <<FALSE, "Ungueltiges Datum">>)

\* mutant of the branch: the sibling is read before it is looked up
validate_date_after_eintrittsdatum_reads_first(value, context) ==
    IF IsFalsy(value)
    THEN Returned(<<TRUE, "">>)
    ELSE TryExcept(
            Then(as_date(value), LAMBDA d :
            Then(IF "eintrittsdatum" \in DOMAIN context
                 THEN as_date(context["eintrittsdatum"])
                 ELSE Raised("KeyError"), LAMBDA eintritt :
            Then(PyGreaterEq(d, eintritt), LAMBDA valid :
            Returned(Verdict(valid, "Austrittsdatum muss nach Eintrittsdatum liegen"))))),
            <<FALSE, "Ungueltiges Datum">>)

\* lines 260-269
validate_date_after_eintrittsdatum(value, context) ==
    IF IsFalsy(value) \/ "eintrittsdatum" \notin DOMAIN context
    THEN Returned(<<TRUE, "">>)
    ELSE TryExcept(
            Then(as_date(value), LAMBDA d :
            Then(as_date(context["eintrittsdatum"]), LAMBDA eintritt :
            Then(PyGreaterEq(d, eintritt), LAMBDA valid :
            Returned(Verdict(valid, "Austrittsdatum muss nach Eintrittsdatum liegen"))))),
            <<FALSE, "Ungueltiges Datum">>)

\* lines 271-276
validate_positive(value) ==
    TryExcept(
        Then(float(value), LAMBDA number :
        Returned(Verdict(number > 0, "Wert muss positiv sein"))),
        <<FALSE, "Ungueltige Zahl">>)

\* mutant: a rule that is not known is not satisfied
validate_default_invalid == Returned(<<FALSE, "Unbekannte Regel">>)

\* line 279: the rule is not known
validate_default == Returned(<<TRUE, "">>)

\* ValidationRuleImpl.validate(rule, value, context) on a day `today`
validate(rule, value, context, today) ==
    LET ctx == ContextOrEmpty(context) IN
    CASE rule = "required" -> validate_required(value)
      [] rule = "date_in_past" -> validate_date_in_past(value, today)
      [] rule = "date_after_eintrittsdatum" ->
            validate_date_after_eintrittsdatum(value, ctx)
      [] rule = "positive" -> validate_positive(value)
      [] OTHER -> validate_default

----------------------------------------------------------------------------
(* Direct calls of the two register methods with dicts that lack keys.     *)

\* the dict f without the keys outside S
Restrict(f, S) == [k \in S |-> f[k]]

\* f, and f with one of its keys left out
OneKeyDropped(f) == {Restrict(f, DOMAIN f \ D) : D \in {{}} \cup {{k} : k \in DOMAIN f}}

\* metadata dicts passed to CalculatedFieldRegistry.register
PartialMetadata ==
    UNION {OneKeyDropped(calculated_field("x", l, <<"a", "b">>, TRUE, 3)) :
              l \in {"label 1", "label 2"}}

\* step_def dicts passed to WorkflowStepRegistry.register
PartialStepDefs ==
    UNION {OneKeyDropped(workflow_step(o, "Schritt", 0)) : o \in StepOrders}

\* WorkflowStepRegistry.register(step_def), called with a dict
RegisterStepDef(step_def) ==
    /\ Len(WorkflowStepRegistry_steps) < MaxSteps
    /\ WorkflowStepRegistry_steps' =
          WorkflowStepRegistry_register(WorkflowStepRegistry_steps, step_def)
    /\ step_log' = Append(step_log, step_def)
    /\ raised' = sort_raises(Append(WorkflowStepRegistry_steps, step_def))
    /\ UNCHANGED <<validate_vars, generator_vars, returned, CalculatedFieldRegistry_fields,
                   registered, next_class, SCHEMA, session_vars, caller_vars>>

NextPartial ==
    \/ \E metadata \in PartialMetadata : RegisterCalculatedField(metadata)
    \/ \E step_def \in PartialStepDefs : RegisterStepDef(step_def)
    \/ ClearCalculatedFields
    \/ ClearWorkflowSteps

SpecPartial == InitEmpty /\ [][NextPartial]_vars

----------------------------------------------------------------------------
(* Callers that keep and change what get and get_all returned.             *)

\* the definitions registered while callers hold references
ViewInputs ==
    {calculated_field(k, "label 1", <<"a", "b">>, TRUE, 3) : k \in {"x", "dienstzeit"}}

\* CalculatedFieldRegistry.get(key): return cls._fields.get(key)
CallGet(key) ==
    /\ returned' = IF IndexOfKey(CalculatedFieldRegistry_fields, key) = 0
                   THEN NoReference
                   ELSE Reference("metadata", key)
    /\ UNCHANGED <<validate_vars, generator_vars, raised, SCHEMA, registry_vars, session_vars,
                   caller_vars>>

\* CalculatedFieldRegistry.get_all(): return cls._fields
CallGetAll ==
    /\ returned' = Reference("_fields", "")
    /\ UNCHANGED <<validate_vars, generator_vars, raised, SCHEMA, registry_vars, session_vars,
                   caller_vars>>

\* WorkflowStepRegistry.get_all(): return cls._steps
CallGetAllSteps ==
    /\ returned' = Reference("_steps", "")
    /\ UNCHANGED <<validate_vars, generator_vars, raised, SCHEMA, registry_vars, session_vars,
                   caller_vars>>

\* the caller assigns value['label'] = label on the dict that get returned
CallerSetsLabel(label) ==
    /\ returned.kind = "metadata"
    /\ CalculatedFieldRegistry_fields' =
          IF returned.live
          THEN [CalculatedFieldRegistry_fields EXCEPT
                   ![IndexOfKey(CalculatedFieldRegistry_fields, returned.key)].label
                       = label]
          ELSE CalculatedFieldRegistry_fields
    /\ UNCHANGED <<validate_vars, generator_vars, api_vars, WorkflowStepRegistry_steps, registered,
                   step_log, next_class, SCHEMA, session_vars, caller_vars>>

\* the caller runs value.clear() on the dict that get_all returned
CallerClearsDict ==
    /\ returned.kind = "_fields"
    /\ CalculatedFieldRegistry_fields' =
          IF returned.live THEN << >> ELSE CalculatedFieldRegistry_fields
    /\ UNCHANGED <<validate_vars, generator_vars, api_vars, WorkflowStepRegistry_steps, registered,
                   step_log, next_class, SCHEMA, session_vars, caller_vars>>

\* the caller runs value.reverse() on the list that get_all returned
CallerReversesList ==
    /\ returned.kind = "_steps"
    /\ WorkflowStepRegistry_steps' =
          IF returned.live
          THEN [i \in DOMAIN WorkflowStepRegistry_steps |->
                   WorkflowStepRegistry_steps[Len(WorkflowStepRegistry_steps) + 1 - i]]
          ELSE WorkflowStepRegistry_steps
    /\ UNCHANGED <<validate_vars, generator_vars, api_vars, CalculatedFieldRegistry_fields,
                   registered, step_log, next_class, SCHEMA, session_vars,
                   caller_vars>>

NextViews ==
    \/ \E metadata \in ViewInputs : RegisterCalculatedField(metadata)
    \/ ClearCalculatedFields
    \/ \E order \in StepOrders : RegisterWorkflowStep(order, "Schritt")
    \/ ClearWorkflowSteps
    \/ \E key \in {"x", "dienstzeit"} : CallGet(key)
    \/ CallGetAll
    \/ CallGetAllSteps
    \/ \E label \in {"label 1", "label 2"} : CallerSetsLabel(label)
    \/ CallerClearsDict
    \/ CallerReversesList

SpecViews == InitEmpty /\ [][NextViews]_vars

----------------------------------------------------------------------------
(* The generator over record types with one attribute: merge of explicit   *)
(* metadata and inferred values.                                           *)

\* the dict of f and g together (their keys are disjoint)
Merge(f, g) ==
    [k \in DOMAIN f \cup DOMAIN g |-> IF k \in DOMAIN f THEN f[k] ELSE g[k]]

\* a keyword argument that is left out or given with a value of S
OptionalArg(k, S) == {EmptyDict} \cup {[x \in {k} |-> v] : v \in S}

\* keyword arguments of ui_field
InferKwargs ==
    {Merge(label, Merge(typ, Merge(required, Merge(order, Merge(group,
        Merge(validation, Merge(hint, options))))))) :
        label \in OptionalArg("label", {<< >>, <<"X">>}),
        typ \in OptionalArg("typ", {"", "select"}),
        required \in OptionalArg("required", BOOLEAN),
        order \in OptionalArg("order", {0, 2}),
        group \in OptionalArg("group", {<<"Z">>}),
        validation \in OptionalArg("validation",
                                   {PyStr("required"), PyList(<< >>),
                                    PyList(<<"required", "positive">>)}),
        hint \in OptionalArg("hint", {<< >>}),
        options \in OptionalArg("options", {<< >>})}

\* field(metadata=...) of an attribute: made by ui_field, absent, or a dict
\* written by hand with a single rule name
InferMetadata ==
    {ui_field(kw) : kw \in InferKwargs}
      \cup {EmptyDict, [ui_validation |-> PyStr("positive")]}

InferNames == {<<"a", "_", "b">>, <<"a", "B", "2", "c">>}

InferTypes ==
    {Class("str"), Class("int"), Class("float"), Class("bool"), Class("date"),
     Class("datetime"), Optional("date"), Optional("float"),
     Union(<<"int", "str">>)}

InitInfer ==
    /\ InitRegistries(VersorgungsBerechnung_fields, Schritt_steps)
    /\ InitSession
    /\ InitCallers
    /\ InitNoCall
    /\ \E name \in InferNames, type \in InferTypes, metadata \in InferMetadata :
          input_dataclass = <<[name |-> name, type |-> type, metadata |-> metadata]>>
    /\ extracted = << >>
    /\ schemas = << >>
    /\ clock = 0
    /\ hash_seed = 0

\* generator.extract_input_fields()
ExtractInputFields ==
    /\ input_dataclass # << >>
    /\ Len(extracted) < MaxCalls
    /\ extracted' = Append(extracted, extract_input_fields(input_dataclass))
    /\ UNCHANGED <<validate_vars, input_dataclass, schemas, clock, hash_seed, api_vars, SCHEMA,
                   registry_vars, session_vars, caller_vars>>

NextInfer == ExtractInputFields

SpecInfer == InitInfer /\ [][NextInfer]_vars

----------------------------------------------------------------------------
(* The generator over record types with three attributes: order of the     *)
(* fields, groups and rule catalogue of the schema.                        *)

SchemaGroups == {<<"Z">>, <<"a">>, <<"a", "b">>}

SchemaOrders == {0, 1}

\* an attribute of the record type: a str with ui_field(group, order,
\* validation)
SchemaAttribute(name, group, order, validation) ==
    [name |-> name, type |-> Class("str"),
     metadata |-> ui_field([group |-> group, order |-> order,
                            validation |-> validation])]

InitSchema ==
    /\ InitRegistries(VersorgungsBerechnung_fields, Schritt_steps)
    /\ InitSession
    /\ InitCallers
    /\ InitNoCall
    /\ \E ga, gb, gc \in SchemaGroups, oa, ob, oc \in SchemaOrders,
          va \in {PyList(<< >>), PyList(<<"required">>)},
          vb \in {PyList(<< >>), PyList(<<"required", "positive">>)} :
          input_dataclass = << SchemaAttribute(<<"a">>, ga, oa, va),
                               SchemaAttribute(<<"b">>, gb, ob, vb),
                               SchemaAttribute(<<"c">>, gc, oc, PyStr("required")) >>
    /\ extracted = << >>
    /\ schemas = << >>
    /\ clock = 0
    /\ hash_seed = 0

\* generator.generate_complete_schema()
GenerateSchema ==
    /\ input_dataclass # << >>
    /\ schemas' = <<generate_complete_schema(input_dataclass,
                                             CalculatedFieldRegistry_fields,
                                             WorkflowStepRegistry_steps,
                                             clock, hash_seed)>>
    /\ UNCHANGED <<validate_vars, input_dataclass, extracted, clock, hash_seed, api_vars, SCHEMA,
                   registry_vars, session_vars, caller_vars>>

\* time passes: datetime.now() reads a later instant
Tick ==
    /\ clock < MaxClock
    /\ clock' = clock + 1
    /\ UNCHANGED <<validate_vars, input_dataclass, extracted, schemas, hash_seed, api_vars, SCHEMA,
                   registry_vars, session_vars, caller_vars>>

\* the interpreter is started again on the same modules: the decorators
\* fill the registries as before, the hash seed is drawn anew
NewProcess ==
    /\ hash_seed' \in HashSeeds \ {hash_seed}
    /\ UNCHANGED <<validate_vars, input_dataclass, extracted, schemas, clock, api_vars, SCHEMA,
                   registry_vars, session_vars, caller_vars>>

NextSchema ==
    \/ ExtractInputFields
    \/ GenerateSchema
    \/ Tick
    \/ NewProcess

SpecSchema == InitSchema /\ [][NextSchema]_vars

----------------------------------------------------------------------------
(* Calls of ValidationRuleImpl.validate.                                   *)

Chars(a, b, c, d, e, f, g, h, i, j) == <<a, b, c, d, e, f, g, h, i, j>>

\* the members of ValidationRule that the fields of psvag_annotated.py use,
\* one that they do not use and a name outside ValidationRule
ValidateRules ==
    {"required", "date_in_past", "date_after_eintrittsdatum",
     "date_after_geburtsdatum", "positive", "email", "no_such_rule"}

\* the days around the readings of the clock
ValidateDates == {<<2025, 12, 31>>, <<2026, 1, 1>>, <<2026, 1, 2>>}

\* the strings passed as a value
ValidateStrings ==
    {<< >>,
     Chars("2", "0", "2", "5", "-", "1", "2", "-", "3", "1"),
     Chars("2", "0", "2", "6", "-", "0", "1", "-", "0", "1"),
     Chars("2", "0", "2", "6", "-", "0", "1", "-", "0", "2"),
     Chars("2", "0", "2", "6", "-", "0", "2", "-", "3", "0"),
     <<"a", "b", "c">>, <<"5">>, <<"0">>, <<"-", "1">>}

ValidateValues ==
    {PyNone}
      \cup {PyStr(chars) : chars \in ValidateStrings}
      \cup {PyDate(d) : d \in ValidateDates}
      \cup {PyInt(n) : n \in {0 - 1, 0, 5}}
      \cup {PyList(<< >>), PyList(<<1>>)}

\* the values a context holds under the key of a sibling field
ContextValues ==
    {PyNone, PyStr(<< >>), PyStr(<<"a", "b", "c">>),
     PyStr(Chars("2", "0", "2", "6", "-", "0", "1", "-", "0", "1")),
     PyDate(<<2026, 1, 1>>), PyInt(5)}

ContextKeys == {"eintrittsdatum", "geburtsdatum"}

\* context: None, or a dict with some of the keys of the siblings
ValidateContexts ==
    {<< >>} \cup {<<d>> : d \in UNION {[K -> ContextValues] : K \in SUBSET ContextKeys}}

InitValidate ==
    /\ InitRegistries(VersorgungsBerechnung_fields, Schritt_steps)
    /\ InitSession
    /\ InitCallers
    /\ InitNoGenerator
    /\ raised = FALSE
    /\ returned = NoReference
    /\ \E rule \in ValidateRules, value \in ValidateValues, context \in ValidateContexts :
          validate_args = <<[rule |-> rule, value |-> value, context |-> context]>>
    /\ validate_result = << >>

\* ValidationRuleImpl.validate(rule, value, context)
Validate ==
    /\ validate_args # << >>
    /\ validate_result' =
          <<[today |-> date_today(clock),
             outcome |-> validate(validate_args[1].rule, validate_args[1].value,
                                  validate_args[1].context, date_today(clock))]>>
    /\ UNCHANGED <<validate_args, generator_vars, api_vars, SCHEMA, registry_vars,
                   session_vars, caller_vars>>

NextValidate ==
    \/ Validate
    \/ Tick

SpecValidate == InitValidate /\ [][NextValidate]_vars

----------------------------------------------------------------------------
(* Concurrent callers of the confirmation: caller c has loaded the case     *)
(* BEISPIEL_MITARBEITER[c]; the callers share formel_bestaetigung and       *)
(* ma_bestaetigt. Without serialization the run of lines 357-372 is split   *)
(* where it reads and writes the shared dicts. With serialization the       *)
(* confirms of a field run one after the other, each as a whole.            *)

Callers == 1..MaxCallers

Idle == [calc |-> 0, bestaetigt |-> 0]

CaseOf(c) == BEISPIEL_MITARBEITER[c]

\* the two source definitions the callers confirm
ConcurrentFields == SubSeq(VersorgungsBerechnung_fields, 1, 2)

InitConcurrent ==
    /\ InitRegistries(ConcurrentFields, Schritt_steps)
    /\ session_keys = AllSessionKeys
    /\ parameter = EmptyParameter
    /\ formel_bestaetigung = EmptyDict
    /\ ma_bestaetigt = EmptyDict
    /\ confirm_result = "none"
    /\ edits = 0
    /\ pc = [c \in Callers |-> "idle"]
    /\ local = [c \in Callers |-> Idle]
    /\ serialized \in BOOLEAN
    /\ InitNoGenerator
    /\ InitNoCall

\* serialized: caller c's run of lines 357-372 for SCHEMA[i], as a whole
ConfirmSerialized(c, i) ==
    LET calc == SCHEMA[i]
        offered == ButtonOffered(calc, CaseOf(c), formel_bestaetigung, ma_bestaetigt)
    IN  /\ serialized
        /\ Schritt3Reached(CaseOf(c))
        /\ CalcRendered(calc, CaseOf(c))
        /\ formel_bestaetigung' =
              IF offered THEN ConfirmCount(formel_bestaetigung, calc)
                         ELSE formel_bestaetigung
        /\ ma_bestaetigt' =
              IF offered THEN ConfirmFlag(ma_bestaetigt, ma_id(CaseOf(c)), calc)
                         ELSE ma_bestaetigt
        /\ confirm_result' = IF offered THEN "counted" ELSE "absorbed"
        /\ UNCHANGED <<validate_vars, generator_vars, api_vars, session_keys, parameter, edits, SCHEMA, registry_vars,
                       caller_vars>>

\* not serialized: caller c's run reaches the quorum code of SCHEMA[i]
StartConfirm(c, i) ==
    /\ ~serialized
    /\ pc[c] = "idle"
    /\ Schritt3Reached(CaseOf(c))
    /\ CalcRendered(SCHEMA[i], CaseOf(c))
    /\ pc' = [pc EXCEPT ![c] = "read"]
    /\ local' = [local EXCEPT ![c] = [calc |-> i, bestaetigt |-> 0]]
    /\ UNCHANGED <<validate_vars, generator_vars, api_vars, serialized, SCHEMA, registry_vars, session_vars>>

\* line 357: bestaetigt = st.session_state.formel_bestaetigung.get(calc['id'], 0)
ReadCount(c) ==
    /\ pc[c] = "read"
    /\ local' = [local EXCEPT ![c].bestaetigt =
                    Bestaetigt(formel_bestaetigung, SCHEMA[local[c].calc])]
    /\ pc' = [pc EXCEPT ![c] = "guard"]
    /\ UNCHANGED <<validate_vars, generator_vars, api_vars, serialized, SCHEMA, registry_vars, session_vars>>

\* lines 359-368: the flag is read, the button is rendered and clicked, or not
CheckGuard(c) ==
    /\ pc[c] = "guard"
    /\ LET calc == SCHEMA[local[c].calc]
           offered == ButtonGuard(calc, local[c].bestaetigt,
                                  ma_geprueft(ma_bestaetigt, ma_id(CaseOf(c)), calc))
       IN  /\ pc' = [pc EXCEPT ![c] = IF offered THEN "count" ELSE "idle"]
           /\ local' = IF offered THEN local ELSE [local EXCEPT ![c] = Idle]
    /\ UNCHANGED <<validate_vars, generator_vars, api_vars, serialized, SCHEMA, registry_vars, session_vars>>

\* line 369: the counter is written from the value read at line 357
WriteCounter(c) ==
    /\ pc[c] = "count"
    /\ formel_bestaetigung' = WriteCount(formel_bestaetigung, SCHEMA[local[c].calc],
                                         local[c].bestaetigt)
    /\ pc' = [pc EXCEPT ![c] = "flag"]
    /\ UNCHANGED <<validate_vars, generator_vars, api_vars, session_keys, parameter, ma_bestaetigt, confirm_result, edits,
                   local, serialized, SCHEMA, registry_vars>>

\* lines 370-373: the flag of the caller's case is set and the run ends
WriteFlag(c) ==
    /\ pc[c] = "flag"
    /\ ma_bestaetigt' = ConfirmFlag(ma_bestaetigt, ma_id(CaseOf(c)),
                                    SCHEMA[local[c].calc])
    /\ pc' = [pc EXCEPT ![c] = "idle"]
    /\ local' = [local EXCEPT ![c] = Idle]
    /\ UNCHANGED <<validate_vars, generator_vars, api_vars, session_keys, parameter, formel_bestaetigung, confirm_result,
                   edits, serialized, SCHEMA, registry_vars>>

NextConcurrent ==
    \/ \E c \in Callers : \E i \in DOMAIN SCHEMA : ConfirmSerialized(c, i)
    \/ \E c \in Callers : \E i \in DOMAIN SCHEMA : StartConfirm(c, i)
    \/ \E c \in Callers : ReadCount(c)
    \/ \E c \in Callers : CheckGuard(c)
    \/ \E c \in Callers : WriteCounter(c)
    \/ \E c \in Callers : WriteFlag(c)

SpecConcurrent == InitConcurrent /\ [][NextConcurrent]_vars

----------------------------------------------------------------------------
(* Claims about the confirmation quorum, checked under SpecQuorum.         *)

Min(a, b) == IF a <= b THEN a ELSE b

\* the cases whose flag for calc is set
Contributors(mb, calc) == {m \in DOMAIN mb : ma_geprueft(mb, m, calc)}

\* the counter of calc and the flags of calc are the same in both states
QuorumUnchangedFor(calc) ==
    /\ Bestaetigt(formel_bestaetigung', calc) = Bestaetigt(formel_bestaetigung, calc)
    /\ Contributors(ma_bestaetigt', calc) = Contributors(ma_bestaetigt, calc)

\* C1: a confirm of field i by the loaded case, taken while the field is
\* UNVERIFIED and the case has not contributed to it, raises that field's
\* counter by exactly one, sets exactly the flag of (case, field) and leaves
\* every other counter and every other flag as it was.
C1_ConfirmCountsOnce ==
    [][\A i \in DOMAIN SCHEMA :
        LET calc == SCHEMA[i]
            m == ma_id(parameter)
        IN  ( /\ Confirm(i)
              /\ Bestaetigt(formel_bestaetigung, calc) < Threshold(calc)
              /\ ~ma_geprueft(ma_bestaetigt, m, calc) )
            => /\ Bestaetigt(formel_bestaetigung', calc)
                    = Bestaetigt(formel_bestaetigung, calc) + 1
               /\ Contributors(ma_bestaetigt', calc)
                    = Contributors(ma_bestaetigt, calc) \cup {m}
               /\ \A j \in DOMAIN SCHEMA : j # i => QuorumUnchangedFor(SCHEMA[j])
    ]_vars

\* C1 witness: one field counted one confirm of the loaded case while another
\* field of the schema, rendered for the same case, still stands at zero.
C1_Witness ==
    /\ confirm_result = "counted"
    /\ \E i, j \in DOMAIN SCHEMA :
          /\ i # j
          /\ Bestaetigt(formel_bestaetigung, SCHEMA[i]) = 1
          /\ ma_geprueft(ma_bestaetigt, ma_id(parameter), SCHEMA[i])
          /\ CalcRendered(SCHEMA[j], parameter)
          /\ Bestaetigt(formel_bestaetigung, SCHEMA[j]) = 0
          /\ ~ma_geprueft(ma_bestaetigt, ma_id(parameter), SCHEMA[j])

\* C2: a confirm of field i by a case whose flag for the field is set, or of
\* a field that is VERIFIED, changes neither a counter nor a flag.
C2_ConfirmAbsorbed ==
    [][\A i \in DOMAIN SCHEMA :
        LET calc == SCHEMA[i] IN
        ( /\ Confirm(i)
          /\ \/ ma_geprueft(ma_bestaetigt, ma_id(parameter), calc)
             \/ Bestaetigt(formel_bestaetigung, calc) >= Threshold(calc) )
        => /\ formel_bestaetigung' = formel_bestaetigung
           /\ ma_bestaetigt' = ma_bestaetigt
    ]_vars

\* C2 witness: the last confirm was absorbed for a case that had contributed
\* to a field that is still UNVERIFIED.
C2_Witness ==
    /\ confirm_result = "absorbed"
    /\ \E i \in DOMAIN SCHEMA :
          /\ ma_geprueft(ma_bestaetigt, ma_id(parameter), SCHEMA[i])
          /\ Bestaetigt(formel_bestaetigung, SCHEMA[i]) = 1
          /\ \A j \in DOMAIN SCHEMA :
                Bestaetigt(formel_bestaetigung, SCHEMA[j]) < Threshold(SCHEMA[j])

\* C5: with a threshold T >= 1 that stays fixed, every confirm of a field
\* leaves its counter at min(T, number of distinct cases that have confirmed
\* it, this one included), and the field is shown as verified exactly when
\* that number has reached T.
C5_QuorumOfDistinctCases ==
    [][\A i \in DOMAIN SCHEMA :
        LET calc == SCHEMA[i]
            T == Threshold(calc)
            before == Contributors(ma_bestaetigt, calc)
            now == before \cup {ma_id(parameter)}
        IN  Confirm(i)
            => /\ T >= 1
               /\ Bestaetigt(formel_bestaetigung, calc) = Cardinality(before)
               /\ Bestaetigt(formel_bestaetigung', calc) = Min(T, Cardinality(now))
               /\ Geprueft(Bestaetigt(formel_bestaetigung', calc), T)
                    <=> Cardinality(now) >= T
    ]_vars

\* C5 witness: three distinct cases have confirmed a field with threshold 3,
\* and a confirm of a fourth distinct case has been absorbed.
C5_Witness ==
    /\ confirm_result = "absorbed"
    /\ \E i \in DOMAIN SCHEMA :
          /\ Threshold(SCHEMA[i]) = 3
          /\ Cardinality(Contributors(ma_bestaetigt, SCHEMA[i])) = 3
          /\ Bestaetigt(formel_bestaetigung, SCHEMA[i]) = 3
          /\ CalcRendered(SCHEMA[i], parameter)
          /\ Schritt3Reached(parameter)
          /\ ma_id(parameter) \notin Contributors(ma_bestaetigt, SCHEMA[i])

\* C6 (as claimed): a confirm by the loaded case never changes whether a
\* different case, one with another personnel id, may contribute to a field
\* that is still UNVERIFIED, whatever birth date and entry date it has.
C6_DistinctCasesContribute ==
    [][\A i \in DOMAIN SCHEMA :
        Confirm(i) =>
          \A b \in {BEISPIEL_MITARBEITER[n].id : n \in 1..3} \ {parameter.id} :
          \A g \in {BEISPIEL_MITARBEITER[n].geburtsdatum : n \in 1..3} :
          \A e \in {BEISPIEL_MITARBEITER[n].eintrittsdatum : n \in 1..3} :
            LET other == [parameter EXCEPT !.id = b, !.geburtsdatum = g,
                                           !.eintrittsdatum = e]
            IN  Bestaetigt(formel_bestaetigung', SCHEMA[i]) < Threshold(SCHEMA[i])
                => ( ButtonOffered(SCHEMA[i], other, formel_bestaetigung', ma_bestaetigt')
                     <=> ButtonOffered(SCHEMA[i], other, formel_bestaetigung, ma_bestaetigt) )
    ]_vars

----------------------------------------------------------------------------
(* Claims checked under Spec: registrations, schema generation, front end. *)

\* C3: no step lowers or removes a counter, and no step clears a flag.
C3_CountersNeverDecrease ==
    [][ /\ \A k \in DOMAIN formel_bestaetigung :
              DictGet(formel_bestaetigung', k, 0) >= formel_bestaetigung[k]
        /\ \A m \in DOMAIN ma_bestaetigt : \A k \in DOMAIN ma_bestaetigt[m] :
              ma_bestaetigt[m][k]
                => DictGet(DictGet(ma_bestaetigt', m, EmptyDict), k, FALSE)
    ]_vars

\* C3 witness: two cases have contributed to a field, and a third case, made
\* by an edit of the loaded data, is on display without a flag.
C3_Witness ==
    /\ edits >= 1
    /\ \E i \in DOMAIN SCHEMA :
          /\ Bestaetigt(formel_bestaetigung, SCHEMA[i]) = 2
          /\ Cardinality(Contributors(ma_bestaetigt, SCHEMA[i])) = 2
          /\ ma_id(parameter) \notin Contributors(ma_bestaetigt, SCHEMA[i])
          /\ \A n \in 1..3 : parameter # BEISPIEL_MITARBEITER[n]

\* the schema shows field k as verified
VerifiedIn(schema, fb, k) ==
    \E i \in DOMAIN schema :
        /\ schema[i].id = k
        /\ Geprueft(Bestaetigt(fb, schema[i]), Threshold(schema[i]))

SchemaIds(schema) == {schema[i].id : i \in DOMAIN schema}

ThresholdIn(schema, k) ==
    Threshold(schema[CHOOSE i \in DOMAIN schema : schema[i].id = k])

\* C4 (as claimed): a field that is VERIFIED is VERIFIED after every step,
\* re-registrations with another threshold included, while it is in the schema.
C4_VerifiedIsTerminal ==
    [][\A k \in SchemaIds(SCHEMA) \cap SchemaIds(SCHEMA') :
          VerifiedIn(SCHEMA, formel_bestaetigung, k)
            => VerifiedIn(SCHEMA', formel_bestaetigung', k)
    ]_vars

\* what holds instead: a field that is VERIFIED is VERIFIED after every step
\* that does not raise the threshold the schema gives it.
VerifiedUnlessThresholdRaised ==
    [][\A k \in SchemaIds(SCHEMA) \cap SchemaIds(SCHEMA') :
          ( /\ VerifiedIn(SCHEMA, formel_bestaetigung, k)
            /\ ThresholdIn(SCHEMA', k) <= ThresholdIn(SCHEMA, k) )
            => VerifiedIn(SCHEMA', formel_bestaetigung', k)
    ]_vars

\* what Schritt 3 shows for calc and the loaded case (lines 356-368)
QuorumStatus(calc, p, fb, mb) ==
    [count |-> Bestaetigt(fb, calc),
     threshold |-> Threshold(calc),
     verified |-> Geprueft(Bestaetigt(fb, calc), Threshold(calc)),
     can_contribute |-> ButtonOffered(calc, p, fb, mb)]

\* the rows of Schritt 3 on display
RowsShown ==
    {i \in DOMAIN SCHEMA :
        Schritt3Reached(parameter) /\ CalcRendered(SCHEMA[i], parameter)}

----------------------------------------------------------------------------
(* Claim checked under SpecConcurrent.                                     *)

\* C8: when the confirms are serialized, the counter of every field is the
\* number of cases whose flag for the field is set, in every reachable state;
\* without the serialization two confirms interleave so that two flags are set
\* and the counter is one.
C8_SerializedCounterIsFlagCount ==
    serialized =>
        \A i \in DOMAIN SCHEMA :
            Bestaetigt(formel_bestaetigung, SCHEMA[i])
              = Cardinality(Contributors(ma_bestaetigt, SCHEMA[i]))

\* C8 witness: the lost update; no lock, every caller is done, two cases have
\* their flag for a field and the counter of the field is one.
C8_Witness ==
    /\ ~serialized
    /\ pc # << >>
    /\ \A c \in DOMAIN pc : pc[c] = "idle"
    /\ \E i \in DOMAIN SCHEMA :
          /\ Cardinality(Contributors(ma_bestaetigt, SCHEMA[i])) = 2
          /\ Bestaetigt(formel_bestaetigung, SCHEMA[i]) = 1

----------------------------------------------------------------------------
(* Claims about the registries, checked under SpecRegistry.                *)

RegistryKeys == {m.key : m \in RegistryInputs}

\* C9: get(k) is the definition last registered under k, None for a key never
\* registered, and get_all holds one entry per registered key.
C9_LastRegistrationWins ==
    LET all == CalculatedFieldRegistry_get_all(CalculatedFieldRegistry_fields) IN
    /\ \A k \in DOMAIN registered :
          CalculatedFieldRegistry_get(CalculatedFieldRegistry_fields, k)
            = registered[k].last
    /\ \A k \in RegistryKeys \ DOMAIN registered :
          CalculatedFieldRegistry_get(CalculatedFieldRegistry_fields, k) = None
    /\ \A i, j \in DOMAIN all : all[i].key = all[j].key => i = j
    /\ {all[i].key : i \in DOMAIN all} = DOMAIN registered

\* C9 witness: two keys are registered, and the entry of one of them has
\* replaced an earlier one.
C9_Witness ==
    /\ Len(CalculatedFieldRegistry_fields) = 2
    /\ \E k \in DOMAIN registered :
          /\ registered[k].replaced
          /\ registered[k].last.label = "label 2"
          /\ registered[k].last.confirmation_threshold = 2

StepLogOrders == [n \in DOMAIN step_log |-> step_log[n].order]

\* position of a registered step in the order of registration
LogPosition(step_def) == CHOOSE n \in DOMAIN step_log : step_log[n] = step_def

\* C10: the step list holds every registered step once, in ascending order,
\* steps of equal order in the order of their registration; the registrations
\* of orders 2, 1, 1 give the list second, third, first.
C10_StepsSortedStable ==
    LET steps == WorkflowStepRegistry_get_all(WorkflowStepRegistry_steps) IN
    /\ Len(steps) = Len(step_log)
    /\ Range(steps) = Range(step_log)
    /\ \A i, j \in DOMAIN steps :
          i < j =>
            \/ steps[i].order < steps[j].order
            \/ /\ steps[i].order = steps[j].order
               /\ LogPosition(steps[i]) < LogPosition(steps[j])
    /\ StepLogOrders = <<2, 1, 1>>
          => steps = <<step_log[2], step_log[3], step_log[1]>>

\* C10 witness: steps of orders 2, 1, 1 have been registered in this order.
C10_Witness == StepLogOrders = <<2, 1, 1>>

----------------------------------------------------------------------------
(* Claims about direct registry calls, checked under SpecPartial.          *)

\* the parameters of calculated_field and of workflow_step without a default
\* that the model keeps
RequiredOfCalculatedField == {"key", "label", "requires"}

RequiredOfWorkflowStep == {"order", "title"}

\* C11 (as claimed): a register call with a definition that lacks a required
\* attribute raises and leaves both registries as they were, and a register
\* call with a complete definition does not raise.
C11_PartialDefinitionRejected ==
    [][ /\ \A metadata \in PartialMetadata :
              RegisterCalculatedField(metadata) =>
                IF RequiredOfCalculatedField \subseteq DOMAIN metadata
                THEN ~raised'
                ELSE /\ raised'
                     /\ UNCHANGED <<CalculatedFieldRegistry_fields,
                                    WorkflowStepRegistry_steps>>
        /\ \A step_def \in PartialStepDefs :
              RegisterStepDef(step_def) =>
                IF RequiredOfWorkflowStep \subseteq DOMAIN step_def
                THEN ~raised'
                ELSE /\ raised'
                     /\ UNCHANGED <<CalculatedFieldRegistry_fields,
                                    WorkflowStepRegistry_steps>>
    ]_vars

----------------------------------------------------------------------------
(* Claim about the values the registries return, checked under SpecViews.  *)

\* C12 (as claimed): what a caller does with the value that get or get_all
\* returned changes neither registry; their content changes only by register
\* and clear.
C12_ViewsAreReadOnly ==
    [][ ( \/ \E label \in {"label 1", "label 2"} : CallerSetsLabel(label)
          \/ CallerClearsDict
          \/ CallerReversesList
          \/ \E key \in {"x", "dienstzeit"} : CallGet(key)
          \/ CallGetAll
          \/ CallGetAllSteps )
        => UNCHANGED <<CalculatedFieldRegistry_fields, WorkflowStepRegistry_steps>>
    ]_vars

----------------------------------------------------------------------------
(* Claims about one emitted field definition, checked under SpecInfer.     *)

\* the definition that the last call of extract_input_fields emitted for a name
EmittedFor(name) ==
    LET fields_list == extracted[Len(extracted)] IN
    fields_list[CHOOSE i \in DOMAIN fields_list : fields_list[i].id = name]

\* the attribute of a field definition that a key of the metadata feeds
EmittedKey(k) ==
    CASE k = "ui_label" -> "label"
      [] k = "ui_type" -> "type"
      [] k = "ui_required" -> "required"
      [] k = "ui_hint" -> "hint"
      [] k = "ui_group" -> "group"
      [] k = "ui_order" -> "order"
      [] k = "ui_validation" -> "validation"
      [] k = "ui_options" -> "options"
      [] k = "ui_width" -> "width"

\* C16 (as claimed): every value that the metadata of an attribute supplies is
\* the value of the emitted definition, falsy values (required False, order
\* 0, an empty label) included; the rule names of validation are emitted as
\* the list of them.
C16_ExplicitValueEmitted ==
    extracted # << >> =>
        \A i \in DOMAIN input_dataclass :
            LET metadata == input_dataclass[i].metadata
                field_def == EmittedFor(input_dataclass[i].name)
            IN  \A k \in DOMAIN metadata :
                    /\ EmittedKey(k) \in DOMAIN field_def
                    /\ field_def[EmittedKey(k)] =
                          IF k = "ui_validation" /\ ~IsList(metadata[k])
                          THEN PyList(<<metadata[k].str>>)
                          ELSE metadata[k]

\* the declared type is Optional[...]
IsOptionalType(declared) ==
    declared.origin = "Union" /\ "NoneType" \in Range(declared.args)

\* the ui type of the table of the specification for a declared type: the
\* inner class of Optional[class], the class itself, and no class otherwise
TableUiType(declared) ==
    LET class == IF declared.origin = ""
                 THEN declared.args[1]
                 ELSE IF IsOptionalType(declared) /\ Len(declared.args) = 2
                 THEN declared.args[CHOOSE i \in DOMAIN declared.args :
                                       declared.args[i] # "NoneType"]
                 ELSE ""
    IN  CASE class = "str" -> "text"
          [] class \in {"int", "float"} -> "number"
          [] class = "bool" -> "checkbox"
          [] class = "date" -> "date"
          [] OTHER -> "text"

\* label is name with "_" as " " and every letter upper case at the start of
\* a run of letters and lower case inside it
IsTitleCased(label, name) ==
    /\ Len(label) = Len(name)
    /\ \A i \in DOMAIN name :
          LET c == name[i]
              letter == IsUpper(c) \/ IsLower(c)
              inside == i > 1 /\ (IsUpper(name[i - 1]) \/ IsLower(name[i - 1]))
          IN  label[i] = IF c = "_" THEN " "
                         ELSE IF ~letter THEN c
                         ELSE IF inside THEN Lower(c) ELSE Upper(c)

\* C17 (as claimed): for an attribute without metadata the emitted type is
\* the table entry of the declared type with an Optional wrapper removed
\* (text for everything outside the table), required is true exactly when
\* the declared type is not Optional, and label is the title-cased name.
C17_InferredFromDeclaredType ==
    extracted # << >> =>
        \A i \in DOMAIN input_dataclass :
            LET field_obj == input_dataclass[i]
                field_def == EmittedFor(field_obj.name)
            IN  field_obj.metadata = EmptyDict =>
                    /\ field_def.type = TableUiType(field_obj.type)
                    /\ field_def.required = ~IsOptionalType(field_obj.type)
                    /\ IsTitleCased(field_def.label, field_obj.name)

\* validation is a list of rule names
IsRuleList(v) == IsList(v) /\ \A i \in DOMAIN v.list : v.list[i] \in {"required", "positive"}

\* the rule names that the metadata of an attribute give, a single name as
\* the list of it, none as the empty list
RuleNamesOf(metadata) ==
    IF "ui_validation" \notin DOMAIN metadata THEN << >>
    ELSE IF IsList(metadata.ui_validation) THEN metadata.ui_validation.list
    ELSE <<metadata.ui_validation.str>>

\* the attributes whose value is None unless the metadata supply it
NoneUnlessGiven == {"hint", "options"}

\* C18 (amended): every emitted definition has validation as the list of the
\* rule names of the metadata, and holds hint and options exactly when the
\* metadata supply a value for them, an empty one included.
C18_ValidationListAndNoneOmitted ==
    extracted # << >> =>
        \A i \in DOMAIN input_dataclass :
            LET metadata == input_dataclass[i].metadata
                field_def == EmittedFor(input_dataclass[i].name)
            IN  /\ "validation" \in DOMAIN field_def
                /\ IsRuleList(field_def.validation)
                /\ field_def.validation.list = RuleNamesOf(metadata)
                /\ \A k \in DOMAIN metadata :
                      EmittedKey(k) \in NoneUnlessGiven =>
                          EmittedKey(k) \in DOMAIN field_def
                /\ \A a \in NoneUnlessGiven :
                      a \in DOMAIN field_def =>
                          \E k \in DOMAIN metadata : EmittedKey(k) = a

\* the value of attribute a is an empty text or an empty list
IsEmptyValue(a, v) ==
    IF a \in {"id", "label", "hint", "group", "options"} THEN v = << >>
    ELSE IF a \in {"type", "width", "field_type"} THEN v = ""
    ELSE FALSE

\* C18 (as claimed): every emitted definition has validation as a list of
\* rule names and no other attribute whose value is empty.
C18_ValidationListAndNoEmpty ==
    \A n \in DOMAIN extracted :
        \A i \in DOMAIN extracted[n] :
            LET field_def == extracted[n][i]
            IN  /\ "validation" \in DOMAIN field_def
                /\ IsRuleList(field_def.validation)
                /\ \A a \in DOMAIN field_def \ {"validation"} :
                      ~IsEmptyValue(a, field_def[a])

\* a single rule name in hand-written metadata was emitted as a list, for an
\* attribute without hint and options
C18_Witness ==
    /\ extracted # << >>
    /\ input_dataclass[1].metadata = [ui_validation |-> PyStr("positive")]
    /\ EmittedFor(input_dataclass[1].name).validation = PyList(<<"positive">>)
    /\ DOMAIN EmittedFor(input_dataclass[1].name) \cap NoneUnlessGiven = {}

----------------------------------------------------------------------------
(* Claims about the assembled schema and the list of fields, checked under *)
(* SpecSchema.                                                             *)

\* C13 (as claimed): a call of generate_complete_schema after an earlier one
\* returns the schema the earlier one returned, meta and the order of the
\* rule catalogue included, and leaves both registries as they were.
C13_SchemaReproducible ==
    [][ (GenerateSchema /\ schemas # << >>)
        => /\ schemas' = schemas
           /\ UNCHANGED <<CalculatedFieldRegistry_fields, WorkflowStepRegistry_steps>>
    ]_vars

HasTie(fields_list) ==
    \E i, j \in DOMAIN fields_list :
        /\ i < j
        /\ fields_list[i].group = fields_list[j].group
        /\ fields_list[i].order = fields_list[j].order

PlainTextLess(a, b) ==
    \E k \in 1..(Len(b)) :
        /\ \A i \in 1..(k - 1) : i <= Len(a) /\ a[i] = b[i]
        /\ \/ Len(a) = k - 1
           \/ Len(a) >= k /\ Ord(a[k]) < Ord(b[k])

\* the place of an attribute in the declaration of the record type
DeclaredIndex(name) ==
    CHOOSE i \in DOMAIN input_dataclass : input_dataclass[i].name = name

\* C15: every list that extract_input_fields returned holds one definition
\* for each declared attribute and no other, in ascending order of (group,
\* order) with the groups compared as plain text, and fields of equal group
\* and order in the order of their declaration.
C15_SortedByGroupAndOrder ==
    \A n \in DOMAIN extracted :
        LET fields_list == extracted[n] IN
        /\ Len(fields_list) = Len(input_dataclass)
        /\ \A i \in DOMAIN input_dataclass :
              \E j \in DOMAIN fields_list : fields_list[j].id = input_dataclass[i].name
        /\ \A i, j \in DOMAIN fields_list :
              i < j =>
                LET f == fields_list[i]
                    g == fields_list[j]
                IN  \/ PlainTextLess(f.group, g.group)
                    \/ f.group = g.group /\ f.order < g.order
                    \/ /\ f.group = g.group
                       /\ f.order = g.order
                       /\ DeclaredIndex(f.id) < DeclaredIndex(g.id)

\* a list was returned whose first field is not the first declared one, with
\* the groups "Z" and "a" and two fields of equal group and order
C15_Witness ==
    /\ extracted # << >>
    /\ extracted[1][1].id # input_dataclass[1].name
    /\ extracted[1][1].group = <<"Z">>
    /\ extracted[1][3].group = <<"a">>
    /\ HasTie(extracted[1])

\* the first place of a group name in a list of fields
FirstAppearance(fields_list, name) ==
    CHOOSE i \in DOMAIN fields_list :
        /\ fields_list[i].group = name
        /\ \A j \in 1..(i - 1) : fields_list[j].group # name

\* C19: in the schema every input field is in the group of its name and in
\* no other, no group is empty or named twice, the fields of a group are
\* in the order of the list of input fields, and the groups are in the
\* order in which their names first appear in that list.
C19_GroupsPartitionFields ==
    schemas # << >> =>
        LET input_fields == schemas[1].input_fields
            groups == schemas[1].groups
        IN  /\ \A i \in DOMAIN input_fields :
                  \E g \in DOMAIN groups : groups[g].name = input_fields[i].group
            /\ \A g \in DOMAIN groups :
                  /\ groups[g].fields # << >>
                  /\ groups[g].fields =
                        SelectSeq(input_fields,
                                  LAMBDA f : f.group = groups[g].name)
            /\ \A g, h \in DOMAIN groups :
                  g < h =>
                      /\ groups[g].name # groups[h].name
                      /\ FirstAppearance(input_fields, groups[g].name)
                            < FirstAppearance(input_fields, groups[h].name)

\* a schema with two groups, one of them with two fields
C19_Witness ==
    /\ schemas # << >>
    /\ Len(schemas[1].groups) = 2
    /\ \E g \in DOMAIN schemas[1].groups : Len(schemas[1].groups[g].fields) = 2

\* C20: the list of rules of the schema holds a name exactly when the
\* validation of some input field holds it, holds no name twice, and the
\* implementations have an entry for each name of the list and for no other.
C20_RuleCatalogue ==
    schemas # << >> =>
        LET input_fields == schemas[1].input_fields
            rules == schemas[1].validation_rules.rules
            implementations == schemas[1].validation_rules.implementations
        IN  /\ \A rule \in Range(RuleNames) :
                  (\E i \in DOMAIN rules : rules[i] = rule)
                      <=> \E f \in DOMAIN input_fields :
                             \E v \in DOMAIN input_fields[f].validation.list :
                                 input_fields[f].validation.list[v] = rule
            /\ \A i, j \in DOMAIN rules : rules[i] = rules[j] => i = j
            /\ DOMAIN implementations = Range(rules)

\* a schema whose catalogue holds two names, one of them used by two fields
C20_Witness ==
    /\ schemas # << >>
    /\ Len(schemas[1].validation_rules.rules) = 2
    /\ \E f, g \in DOMAIN schemas[1].input_fields :
          /\ f # g
          /\ "required" \in Range(schemas[1].input_fields[f].validation.list)
          /\ "required" \in Range(schemas[1].input_fields[g].validation.list)

----------------------------------------------------------------------------
(* Claims about ValidationRuleImpl.validate, checked under SpecValidate.   *)

\* the arguments and the outcome of the last call of validate
CalledRule == validate_args[1].rule

CalledValue == validate_args[1].value

CalledContext == ContextOrEmpty(validate_args[1].context)

Outcome == validate_result[1].outcome

\* the rule names that validate has a branch for
ImplementedRules == {"required", "date_in_past", "date_after_eintrittsdatum", "positive"}

\* C21: for a rule name that validate does not implement, with every value
\* and context, validate returns (True, "").
C21_UnknownRuleIsValid ==
    (validate_result # << >> /\ CalledRule \notin ImplementedRules)
        => Outcome = Returned(<<TRUE, "">>)

\* a name outside ValidationRule was evaluated on a malformed value in a
\* context that holds both siblings
C21_Witness ==
    /\ validate_result # << >>
    /\ CalledRule = "no_such_rule"
    /\ CalledValue = PyStr(<<"a", "b", "c">>)
    /\ DOMAIN CalledContext = ContextKeys

\* the rules date_after_X and the sibling X of each
DateAfterRules == {"date_after_eintrittsdatum", "date_after_geburtsdatum"}

SiblingOf(rule) ==
    IF rule = "date_after_eintrittsdatum" THEN "eintrittsdatum" ELSE "geburtsdatum"

\* C22: for a rule date_after_X and every value, if the context does not
\* hold the key X, validate returns (True, "").
C22_AbsentSiblingIsValid ==
    ( /\ validate_result # << >>
      /\ CalledRule \in DateAfterRules
      /\ SiblingOf(CalledRule) \notin DOMAIN CalledContext )
        => Outcome = Returned(<<TRUE, "">>)

\* date_after_eintrittsdatum was evaluated on a value that is present and
\* no date, in a context that holds the other sibling only
C22_Witness ==
    /\ validate_result # << >>
    /\ CalledRule = "date_after_eintrittsdatum"
    /\ CalledValue = PyStr(<<"a", "b", "c">>)
    /\ DOMAIN CalledContext = {"geburtsdatum"}

\* v is a date or a string that is read as a date
IsParsableDate(v) ==
    \/ "date" \in DOMAIN v
    \/ "str" \in DOMAIN v /\ date_fromisoformat(v.str).exc = ""

\* the date of such a value
DateOf(v) == IF "date" \in DOMAIN v THEN v.date ELSE date_fromisoformat(v.str).value.date

\* C23 (as claimed): for a rule date_after_X whose sibling X is in the
\* context, validate returns valid exactly when the date of the value is
\* on or after the date of the sibling if both are dates or read as dates,
\* and returns (True, "") if the sibling is empty or is not read as a date.
C23_DateAfterSibling ==
    ( /\ validate_result # << >>
      /\ CalledRule \in DateAfterRules
      /\ SiblingOf(CalledRule) \in DOMAIN CalledContext )
        => LET sibling == CalledContext[SiblingOf(CalledRule)] IN
           /\ (IsParsableDate(CalledValue) /\ IsParsableDate(sibling))
                 => /\ Outcome.exc = ""
                    /\ Outcome.value[1] = ~DateLess(DateOf(CalledValue), DateOf(sibling))
           /\ ~IsParsableDate(sibling) => Outcome = Returned(<<TRUE, "">>)

\* C24 (amended): for date_in_past validate returns (True, "") for a value
\* that is absent or empty, a verdict that is valid exactly when the date is
\* before today for a date or a string read as a date, and (False, "invalid
\* date") with its own message for every other value.
C24_DateInPastOrEmpty ==
    (validate_result # << >> /\ CalledRule = "date_in_past")
        => IF IsFalsy(CalledValue)
           THEN Outcome = Returned(<<TRUE, "">>)
           ELSE IF IsParsableDate(CalledValue)
           THEN /\ Outcome.exc = ""
                /\ Outcome.value[1] =
                      DateLess(DateOf(CalledValue), validate_result[1].today)
                /\ Outcome.value[2] # "Ungueltiges Datum"
           ELSE Outcome = Returned(<<FALSE, "Ungueltiges Datum">>)

\* C24 (as claimed): for date_in_past validate returns valid exactly when the
\* value is read as a date before today, so not for an absent or empty
\* value, and (False, "invalid date") for a value that is not read as a date.
C24_DateInPast ==
    (validate_result # << >> /\ CalledRule = "date_in_past")
        => /\ Outcome.exc = ""
           /\ Outcome.value[1] =
                 ( /\ IsParsableDate(CalledValue)
                   /\ DateLess(DateOf(CalledValue), validate_result[1].today) )
           /\ ( /\ ~IsFalsy(CalledValue)
                /\ ~IsParsableDate(CalledValue) )
                 => Outcome = Returned(<<FALSE, "Ungueltiges Datum">>)

\* date_in_past was evaluated on the string of today's date
C24_Witness ==
    /\ validate_result # << >>
    /\ CalledRule = "date_in_past"
    /\ "str" \in DOMAIN CalledValue
    /\ IsParsableDate(CalledValue)
    /\ DateOf(CalledValue) = validate_result[1].today
    /\ Outcome.value[1] = FALSE

\* the messages of validate
Messages ==
    {"", "Dieses Feld ist erforderlich", "Datum muss in der Vergangenheit liegen",
     "Ungueltiges Datum", "Austrittsdatum muss nach Eintrittsdatum liegen",
     "Wert muss positiv sein", "Ungueltige Zahl"}

\* C25: every call of validate returns a pair of a boolean and a message and
\* raises nothing, whatever the rule, the value and the context.
C25_ValidateNeverRaises ==
    validate_result # << >>
        => /\ Outcome.exc = ""
           /\ Len(Outcome.value) = 2
           /\ Outcome.value[1] \in BOOLEAN
           /\ Outcome.value[2] \in Messages

\* date_after_eintrittsdatum was evaluated on a date in a context whose key
\* eintrittsdatum holds None
C25_Witness ==
    /\ validate_result # << >>
    /\ CalledRule = "date_after_eintrittsdatum"
    /\ "date" \in DOMAIN CalledValue
    /\ "eintrittsdatum" \in DOMAIN CalledContext
    /\ CalledContext["eintrittsdatum"] = PyNone
    /\ Outcome = Returned(<<FALSE, "Ungueltiges Datum">>)

\* C30: the message of the pair that validate returns is empty exactly when
\* valid is true.
C30_MessageIffInvalid ==
    (validate_result # << >> /\ Outcome.exc = "")
        => (Outcome.value[2] = "" <=> Outcome.value[1] = TRUE)

\* `required` was evaluated on a value that is present, with an empty message
C30_Witness ==
    /\ validate_result # << >>
    /\ CalledRule = "required"
    /\ CalledValue = PyInt(0)
    /\ Outcome = Returned(<<TRUE, "">>)

----------------------------------------------------------------------------
(* Claims about the quorum of one operator, checked under Spec.            *)

\* the identities whose flag for the field id k is set
FlaggedFor(mb, k) == {m \in DOMAIN mb : DictGet(mb[m], k, FALSE)}

\* C26: with one operator, in every reachable state the counter of every
\* calculated field, of the schema or with a stored counter, is the number
\* of distinct identities whose flag for the field is set.
C26_CounterIsNumberOfFlags ==
    \A k \in SchemaIds(SCHEMA) \cup DOMAIN formel_bestaetigung :
        DictGet(formel_bestaetigung, k, 0)
            = Cardinality(FlaggedFor(ma_bestaetigt, k))

\* two identities have contributed to a field, the second of them made by an
\* edit of the loaded case, and a repeated confirm of it was absorbed
C26_Witness ==
    /\ confirm_result = "absorbed"
    /\ edits >= 1
    /\ \E i \in DOMAIN SCHEMA :
          /\ Bestaetigt(formel_bestaetigung, SCHEMA[i]) = 2
          /\ Bestaetigt(formel_bestaetigung, SCHEMA[i]) < Threshold(SCHEMA[i])
          /\ Cardinality(FlaggedFor(ma_bestaetigt, SCHEMA[i].id)) = 2
          /\ ma_id(parameter) \in FlaggedFor(ma_bestaetigt, SCHEMA[i].id)

\* C27 (as claimed): in every reachable state the counter of every calculated
\* field of the schema is at least 0 and at most max(threshold, 0).
C27_CounterWithinThreshold ==
    \A i \in DOMAIN SCHEMA :
        /\ Bestaetigt(formel_bestaetigung, SCHEMA[i]) >= 0
        /\ Bestaetigt(formel_bestaetigung, SCHEMA[i]) <= Max(Threshold(SCHEMA[i]), 0)

\* C27 (amended): no counter is below 0, and a step that changes the counter
\* of a field raises it by one, for a field of the schema, to at most the
\* threshold that the schema gives the field in that step.
C27_CounterRaisedWithinThreshold ==
    [][\A k \in DOMAIN formel_bestaetigung' :
        LET old == DictGet(formel_bestaetigung, k, 0)
            new == formel_bestaetigung'[k]
        IN  /\ new >= 0
            /\ new # old
                 => /\ k \in SchemaIds(SCHEMA)
                    /\ new = old + 1
                    /\ new <= Max(ThresholdIn(SCHEMA, k), 0)
    ]_vars

\* a field whose counter three cases have raised to 3 is on display under a
\* schema that gives it the threshold 2, and a confirm of it was absorbed
C27_Witness ==
    /\ confirm_result = "absorbed"
    /\ \E i \in RowsShown :
          /\ Bestaetigt(formel_bestaetigung, SCHEMA[i]) = 3
          /\ Threshold(SCHEMA[i]) = 2
          /\ SCHEMA[i].needs_confirmation
          /\ ~ButtonOffered(SCHEMA[i], parameter, formel_bestaetigung, ma_bestaetigt)

----------------------------------------------------------------------------
(* Claim about declarations that ask for no confirmation, checked under    *)
(* SpecExempt.                                                             *)

\* the field is declared with confirmation_threshold = 0 or with
\* needs_confirmation = False
Exempt(calc) == calc.confirmation_threshold = 0 \/ ~calc.needs_confirmation

\* the loaded case and the three example cases
Cases == {parameter} \cup Range(BEISPIEL_MITARBEITER)

----------------------------------------------------------------------------
(* Claim about the identity of a case, checked under SpecIdentity.         *)

\* the step is an edit of the input `field`
EditOf(field) ==
    \E val \in WidgetValues(field) : Edit(field, val) \/ DateInput(field, val)

\* the row of calc is rendered for the case p
RowRendered(calc, p) == Schritt3Reached(p) /\ CalcRendered(calc, p)

\* C29 (as claimed): an edit of another input than the two dates leaves the
\* identity of the loaded case as it is; an edit that changes a date of a
\* case that has contributed to a field gives the case an identity whose
\* flag for the field is not set, and the confirm button of the field is
\* rendered for it again if the field is UNVERIFIED and its row is rendered.
C29_DateChangeGivesFreshIdentity ==
    [][ /\ \A field \in InputFields \ DateInputs :
              EditOf(field) => ma_id(parameter') = ma_id(RunParameter)
        /\ \A field \in DateInputs : \A i \in DOMAIN SCHEMA :
              LET calc == SCHEMA[i] IN
              ( /\ EditOf(field)
                /\ parameter'[field] # parameter[field]
                /\ ma_geprueft(ma_bestaetigt, ma_id(parameter), calc) )
              => /\ parameter'.id = parameter.id
                 /\ ma_id(parameter') # ma_id(parameter)
                 /\ ~ma_geprueft(ma_bestaetigt', ma_id(parameter'), calc)
                 /\ ( /\ Bestaetigt(formel_bestaetigung', calc) < Threshold(calc)
                      /\ RowRendered(calc, parameter') )
                      => ButtonOffered(calc, parameter', formel_bestaetigung',
                                       ma_bestaetigt')
    ]_vars

\* C29 (amended): as claimed, but the flag of the new identity is not set
\* exactly when the new pair of dates has not itself contributed to the
\* field before; only then the confirm button is rendered again.
C29_DateChangeGivesIdentityOfDates ==
    [][ /\ \A field \in InputFields \ DateInputs :
              EditOf(field) => ma_id(parameter') = ma_id(RunParameter)
        /\ \A field \in DateInputs : \A i \in DOMAIN SCHEMA :
              LET calc == SCHEMA[i]
                  fresh == ma_id(parameter') \notin Contributors(ma_bestaetigt, calc)
              IN
              ( /\ EditOf(field)
                /\ parameter'[field] # parameter[field]
                /\ ma_geprueft(ma_bestaetigt, ma_id(parameter), calc) )
              => /\ parameter'.id = parameter.id
                 /\ ma_id(parameter') # ma_id(parameter)
                 /\ ~ma_geprueft(ma_bestaetigt', ma_id(parameter'), calc) <=> fresh
                 /\ ( /\ Bestaetigt(formel_bestaetigung', calc) < Threshold(calc)
                      /\ RowRendered(calc, parameter') )
                      => ( ButtonOffered(calc, parameter', formel_bestaetigung',
                                         ma_bestaetigt') <=> fresh )
    ]_vars

\* an example case has raised the counter of a field under its own dates
\* and, after an edit of a date, once more under the new ones
C29_Witness ==
    /\ confirm_result = "counted"
    /\ edits = 1
    /\ \A field \in InputFields \ DateInputs :
          \E n \in DOMAIN BEISPIEL_MITARBEITER :
              parameter[field] = BEISPIEL_MITARBEITER[n][field]
    /\ \E n \in DOMAIN BEISPIEL_MITARBEITER : \E i \in DOMAIN SCHEMA :
          /\ parameter.id = BEISPIEL_MITARBEITER[n].id
          /\ ma_id(parameter) # ma_id(BEISPIEL_MITARBEITER[n])
          /\ Contributors(ma_bestaetigt, SCHEMA[i])
                = {ma_id(parameter), ma_id(BEISPIEL_MITARBEITER[n])}
          /\ Bestaetigt(formel_bestaetigung, SCHEMA[i]) = 2
          /\ Bestaetigt(formel_bestaetigung, SCHEMA[i]) < Threshold(SCHEMA[i])

====
